---------------------------- MODULE Spec2Model ----------------------------
(***************************************************************************)
(* A model of the bit-level core of Nayuki++ (a C++ port of the Nayuki     *)
(* FLAC library): the buffered bit reader (AbstractFlacLowLevelInput /     *)
(* ByteArrayFlacInput), the bit writer (BitOutputStream) and the metadata  *)
(* and frame header codecs built on them.                                  *)
(*                                                                         *)
(* Machine words wider than TLC's integers are words: sequences of bytes   *)
(* 0..255, most significant byte first, of the width of the C++ type.      *)
(***************************************************************************)
EXTENDS Integers, Sequences, FiniteSets, TLC

VARIABLES
    build,   \* the build of the library: ABI widths, NDEBUG
    data,    \* the byte array handed to ByteArrayFlacInput
    rd,      \* the reader object (fields of AbstractFlacLowLevelInput)
    wr,      \* the writer object (fields of BitOutputStream) and its sink
    out,     \* the last call: operation, arguments, result, error
    ghost    \* bookkeeping of the checks: span start, reads without failure

vars == <<build, data, rd, wr, out, ghost>>

---------------------------------------------------------------------------
(* Words *)

Pow2(k) == 2 ^ k

Min(a, b) == IF a <= b THEN a ELSE b

\* K applied to v: names a value that is computed once and used many times.
Bind(v, K(_)) == K(v)

\* Bitwise and, or, exclusive or of two natural numbers.
RECURSIVE BitAnd(_, _)
BitAnd(a, b) ==
    IF a = 0 \/ b = 0 THEN 0
    ELSE ((a % 2) * (b % 2)) + 2 * BitAnd(a \div 2, b \div 2)

RECURSIVE BitXor(_, _)
BitXor(a, b) ==
    IF a = 0 THEN b
    ELSE IF b = 0 THEN a
    ELSE ((a + b) % 2) + 2 * BitXor(a \div 2, b \div 2)

BitOr(a, b) == a + b - BitAnd(a, b)

\* The word of w bits (w a multiple of 8) all zero.
ZeroW(w) == [i \in 1..(w \div 8) |-> 0]

\* Byte m of a word, byte 0 the least significant; 0 outside the word.
ByteW(b, m) == IF m >= 0 /\ m < Len(b) THEN b[Len(b) - m] ELSE 0

\* The w-bit word of the natural number v (v below 2^31).
ToW(v, w) ==
    [i \in 1..(w \div 8) |->
        IF (w \div 8) - i >= 4 THEN 0 ELSE (v \div Pow2(8 * ((w \div 8) - i))) % 256]

\* The number a word holds; only for words whose value is below 2^31.
RECURSIVE FromW(_)
FromW(b) ==
    IF Len(b) = 0 THEN 0
    ELSE 256 * FromW(SubSeq(b, 1, Len(b) - 1)) + b[Len(b)]

\* Below 2^31, which is as far as FromW goes.
FitsInt(b) == \A i \in 1..Len(b) : b[i] = 0 \/ Len(b) - i < 3 \/ (Len(b) - i = 3 /\ b[i] < 128)

\* b >> s and b << s (logical) at the width of b, 0 <= s < 8 * Len(b).
ShrW(b, s) ==
    [i \in 1..Len(b) |->
        ((ByteW(b, Len(b) - i + (s \div 8) + 1) * 256 + ByteW(b, Len(b) - i + (s \div 8)))
            \div Pow2(s % 8)) % 256]

ShlW(b, s) ==
    [i \in 1..Len(b) |->
        ((ByteW(b, Len(b) - i - (s \div 8)) * 256 + ByteW(b, Len(b) - i - (s \div 8) - 1))
            \div Pow2(8 - (s % 8))) % 256]

OrW(a, b) == [i \in 1..Len(a) |-> BitOr(a[i], b[i])]
AndW(a, b) == [i \in 1..Len(a) |-> BitAnd(a[i], b[i])]
XorW(a, b) == [i \in 1..Len(a) |-> BitXor(a[i], b[i])]

\* Conversion to an unsigned type of w bits: truncation or zero extension.
ResizeW(b, w) ==
    IF w \div 8 <= Len(b) THEN SubSeq(b, Len(b) - (w \div 8) + 1, Len(b))
    ELSE ZeroW(w - 8 * Len(b)) \o b

\* The mask (1 << n) - 1 at width w.
MaskW(n, w) ==
    [i \in 1..(w \div 8) |->
        IF n >= 8 * ((w \div 8) - i + 1) THEN 255
        ELSE IF n <= 8 * ((w \div 8) - i) THEN 0
        ELSE Pow2(n - 8 * ((w \div 8) - i)) - 1]

IsZeroW(b) == \A i \in 1..Len(b) : b[i] = 0

\* (T)(b >> s), and for n # 32 masked with (1 << n) - 1, T unsigned of w bits.
ExtractW(b, s, n, w) ==
    IF n = 32 THEN ResizeW(ShrW(b, s), w)
    ELSE AndW(ResizeW(ShrW(b, s), w), MaskW(n, w))

---------------------------------------------------------------------------
(* The build.  uint_fast16_t and uint_fast32_t are 64 bits wide with glibc *)
(* on x86-64 and 16 and 32 bits wide on macOS; both are in the CI matrix.  *)
(* assert() is compiled in unless NDEBUG is defined.                       *)

Abis == {"glibc", "darwin"}
Fast16Bits(abi) == IF abi = "glibc" THEN 64 ELSE 16
Fast32Bits(abi) == IF abi = "glibc" THEN 64 ELSE 32

Builds == [abi : Abis, ndebug : BOOLEAN]

---------------------------------------------------------------------------
(* Bounds of the model *)

\* Capacity of the reader's byte buffer (4096 in the source, scaled down so
\* that refills happen inside short streams).
BUF_SIZE == 9

---------------------------------------------------------------------------
(* CRC tables *)

CRC_TABLE_LEN == 256

RECURSIVE Iterate8(_, _, _)
Iterate8(Step(_), t, j) == IF j = 0 THEN t ELSE Iterate8(Step, Step(t), j - 1)

Crc8TableStep(t) == BitXor(t * 2, (t \div 128) * 263)
Crc16TableStep(t) == BitXor(t * 2, (t \div 32768) * 98309)

CRC8_TABLE == [i \in 0..(CRC_TABLE_LEN - 1) |-> Iterate8(Crc8TableStep, i, 8) % 256]
CRC16_TABLE == [i \in 0..(CRC_TABLE_LEN - 1) |-> Iterate8(Crc16TableStep, i * 256, 8)]




---------------------------------------------------------------------------
(* The reader: AbstractFlacLowLevelInput over ByteArrayFlacInput.          *)
(* Every operation is an operator from the object (a record of its fields) *)
(* to the object after the call, with the value returned and the exception *)
(* thrown ("none" when the call returns).  "Abort" is a failed assert()    *)
(* and "UB" an operation the language leaves undefined: both end the run.  *)

Ret(r, val, err) == [r |-> r, val |-> val, err |-> err]

Halts(err) == err \in {"Abort", "UB"}

\* ByteArrayFlacInput::readUnderlying(buf, off, len), called with off = 0 and
\* len = BUF_SIZE: copies min(length - offset, len) bytes and returns the
\* count, or -1 when none is left.  length and offset are unsigned: with
\* offset above length the difference wraps to a number above len, the
\* count is len and memcpy reads data[offset .. offset + len), outside the
\* array.
ByteArrayFlacInput_readUnderlying(r, d) ==
    IF r.offset > Len(d)
    THEN Ret([r EXCEPT !.ub = TRUE, !.offset = @ + BUF_SIZE], BUF_SIZE, "none")
    ELSE LET n == Min(Len(d) - r.offset, BUF_SIZE)
         IN  IF n = 0 THEN Ret(r, -1, "none")
             ELSE Ret([r EXCEPT !.byteBuffer =
                                    [i \in 0..(BUF_SIZE - 1) |->
                                        IF i < n THEN d[r.offset + i + 1] ELSE @[i]],
                                !.offset = @ + n],
                      n, "none")

\* The loop of updateCrcs over byteBuffer[i .. end).
RECURSIVE updateCrcsLoop(_, _, _)
updateCrcsLoop(r, i, end) ==
    IF i >= end THEN r
    ELSE IF i < 0 \/ i >= BUF_SIZE THEN [r EXCEPT !.ub = TRUE]
    ELSE updateCrcsLoop(
             [r EXCEPT !.crc8 = CRC8_TABLE[BitXor(r.crc8, r.byteBuffer[i])] % 256,
                       !.crc16 = BitXor(CRC16_TABLE[BitXor(r.crc16 \div 256,
                                                           r.byteBuffer[i])],
                                        (r.crc16 % 256) * 256)],
             i + 1, end)

updateCrcs(r, unusedTrailingBytes) ==
    [updateCrcsLoop(r, r.crcStartIndex, r.byteBufferIndex - unusedTrailingBytes)
        EXCEPT !.crcStartIndex = r.byteBufferIndex - unusedTrailingBytes]

\* The tail of readUnderlying(): byteBuffer[byteBufferIndex++].
takeByte(r) ==
    Ret([r EXCEPT !.byteBufferIndex = @ + 1], r.byteBuffer[r.byteBufferIndex], "none")

\* readUnderlying() once the source has answered with u: byteBufferLen is the
\* count it returned and crcStartIndex 0; byteBufferIndex goes back to 0 only
\* when bytes came.
refilled(u) ==
    IF u.val <= 0
    THEN Ret([u.r EXCEPT !.byteBufferLen = u.val, !.crcStartIndex = 0], -1, "none")
    ELSE takeByte([u.r EXCEPT !.byteBufferLen = u.val, !.crcStartIndex = 0,
                              !.byteBufferIndex = 0])

\* A readUnderlying() that asks the source again after it has ended.
readUnderlyingAsking(r, d) ==
    IF r.byteBufferIndex >= r.byteBufferLen
    THEN refilled(ByteArrayFlacInput_readUnderlying(
             updateCrcs([r EXCEPT !.byteBufferStartPos = @ + r.byteBufferLen], 0),
             d))
    ELSE takeByte(r)

\* AbstractFlacLowLevelInput::readUnderlying(): the next byte of the byte
\* buffer, refilled from the source when it is used up; -1 at the end.
readUnderlying(r, d) ==
    IF r.byteBufferIndex >= r.byteBufferLen
    THEN IF r.byteBufferLen = -1 THEN Ret(r, -1, "none")
         ELSE refilled(ByteArrayFlacInput_readUnderlying(
                  updateCrcs([r EXCEPT !.byteBufferStartPos = @ + r.byteBufferLen], 0),
                  d))
    ELSE takeByte(r)

\* checkByteAligned that looks at the lowest bit of the count only.
checkByteAlignedLoose(r) == r.bitBufferLen % 2 = 0

checkByteAligned(r) == r.bitBufferLen % 8 = 0

resetCrcs(r) ==
    IF ~checkByteAligned(r) THEN Ret(r, 0, "NotAligned")
    ELSE Ret([r EXCEPT !.crcStartIndex = r.byteBufferIndex - (r.bitBufferLen \div 8),
                       !.crc8 = 0,
                       !.crc16 = 0],
             0, "none")

\* positionChanged that leaves byteBufferLen as it is.
positionChangedKeepingLen(r, pos) ==
    resetCrcs([r EXCEPT !.byteBufferStartPos = pos,
                        !.byteBuffer = [i \in 0..(BUF_SIZE - 1) |-> 0],
                        !.byteBufferIndex = 0,
                        !.bitBuffer = ZeroW(64),
                        !.bitBufferLen = 0]).r

positionChanged(r, pos) ==
    resetCrcs([r EXCEPT !.byteBufferStartPos = pos,
                        !.byteBuffer = [i \in 0..(BUF_SIZE - 1) |-> 0],
                        !.byteBufferLen = 0,
                        !.byteBufferIndex = 0,
                        !.bitBuffer = ZeroW(64),
                        !.bitBufferLen = 0]).r

\* The object after ByteArrayFlacInput(b, len): the base constructor runs
\* positionChanged(0), then data is set to b and offset to 0.  Two fields are not in the
\* source: ub records an access outside byteBuffer, and taken counts the bits
\* handed out since construction (it goes up wherever bitBufferLen goes down).
NewReader ==
    positionChanged([data |-> "b", offset |-> 0, byteBufferStartPos |-> 0,
                     byteBuffer |-> [i \in 0..(BUF_SIZE - 1) |-> 0],
                     byteBufferLen |-> 0, byteBufferIndex |-> 0,
                     bitBuffer |-> ZeroW(64), bitBufferLen |-> 0,
                     crc8 |-> 0, crc16 |-> 0, crcStartIndex |-> 0,
                     ub |-> FALSE, taken |-> 0], 0)

\* ByteArrayFlacInput::seekTo(pos): offset = pos, then positionChanged(pos).
\* The bits handed out are counted from the new position on.
seekTo(r, pos) ==
    Ret(positionChanged([r EXCEPT !.offset = pos, !.taken = 8 * pos], pos), 0, "none")

\* AbstractFlacLowLevelInput::close(): -1 in the unsigned fields crc8 and
\* crc16 stands for their highest value, which bitBufferLen, of 8 bits in
\* either ABI, holds as 255.
AbstractFlacLowLevelInput_close(r) ==
    Ret([r EXCEPT !.byteBuffer = "nullptr",
                  !.byteBufferLen = -1,
                  !.byteBufferIndex = -1,
                  !.bitBuffer = ZeroW(64),
                  !.bitBufferLen = 255,
                  !.crc8 = -1,
                  !.crc16 = -1,
                  !.crcStartIndex = -1],
        0, "none")

\* ByteArrayFlacInput::close()
ByteArrayFlacInput_close(r) ==
    IF r.data # "nullptr"
    THEN AbstractFlacLowLevelInput_close([r EXCEPT !.data = "nullptr"])
    ELSE Ret(r, 0, "none")

getPosition(r) ==
    r.byteBufferStartPos + r.byteBufferIndex - ((r.bitBufferLen + 7) \div 8)

getBitPosition(r) == (-r.bitBufferLen) % 8

\* bitBuffer = (bitBuffer << 8) | b; bitBufferLen += 8
pushByte(r, b) ==
    [r EXCEPT !.bitBuffer = OrW(ShlW(@, 8), ToW(b, 64)),
              !.bitBufferLen = @ + 8]

\* readUintFill that gives up the bits it buffered when the source ends.
RECURSIVE readUintFillDropping(_, _, _)
readUintFillDropping(r, d, n) ==
    IF r.bitBufferLen >= n THEN Ret(r, 0, "none")
    ELSE Bind(readUnderlying(r, d),
              LAMBDA u : IF u.val = -1
                         THEN Ret([u.r EXCEPT !.bitBufferLen = 0], 0, "EndOfStream")
                         ELSE readUintFillDropping(pushByte(u.r, u.val), d, n))

\* The loop of readUint: one byte at a time until n bits are buffered.
RECURSIVE readUintFill(_, _, _)
readUintFill(r, d, n) ==
    IF r.bitBufferLen >= n THEN Ret(r, 0, "none")
    ELSE Bind(readUnderlying(r, d),
              LAMBDA u : IF u.val = -1 THEN Ret(u.r, 0, "EndOfStream")
                         ELSE readUintFill(pushByte(u.r, u.val), d, n))

\* readUint(n) once n bits are buffered in r: the value is a uint_fast32_t, a
\* word of w bits.  With n = 32 it is the bit buffer shifted and
\* converted, not masked.  A shift of the 64-bit buffer by 64 or more is
\* undefined.  The mask (1 << n) - 1 is taken as the n low bits for every n
\* below 32; at n = 31 the int arithmetic of the source overflows, and no
\* specification here reads that width.
readUintTake(r, n, w) ==
    IF r.bitBufferLen - n >= 64 THEN Ret(r, ZeroW(w), "UB")
    ELSE Ret([r EXCEPT !.bitBufferLen = @ - n, !.taken = @ + n],
             ExtractW(r.bitBuffer, r.bitBufferLen - n, n, w), "none")

readUint(r, d, n, w) ==
    IF n > 32 THEN Ret(r, ZeroW(w), "InvalidArgument")
    ELSE Bind(readUintFill(r, d, n),
              LAMBDA f : IF f.err # "none" THEN Ret(f.r, ZeroW(w), f.err)
                         ELSE readUintTake(f.r, n, w))

\* readSignedInt(n): (readUint(n) << shift) >> shift.  readUint returns the
\* unsigned uint_fast32_t, so both shifts are made on an unsigned word of w
\* bits, the right one bringing in zeros; the return converts the word to
\* int_fast32_t, of the same width.  val is that word, two's complement.
readSignedInt(r, d, n, w) ==
    IF n > 32 THEN Ret(r, ZeroW(w), "InvalidArgument")
    ELSE Bind(readUint(r, d, n, w),
              LAMBDA u : IF u.err # "none" THEN u
                         ELSE Ret(u.r, ShrW(ShlW(u.val, 32 - n), 32 - n), "none"))

\* getCrc8/getCrc16 end in assert((crc >> width) != 0), which a crc of that
\* width never satisfies: the call aborts unless NDEBUG removes the assert.
getCrc8(r, ndebug) ==
    IF ~checkByteAligned(r) THEN Ret(r, 0, "NotAligned")
    ELSE Bind(updateCrcs(r, r.bitBufferLen \div 8),
              LAMBDA r1 :
                  IF r1.ub THEN Ret(r1, 0, "UB")
                  ELSE IF ~ndebug /\ ~((r1.crc8 \div 256) # 0) THEN Ret(r1, 0, "Abort")
                  ELSE Ret(r1, r1.crc8 % 256, "none"))

getCrc16(r, ndebug) ==
    IF ~checkByteAligned(r) THEN Ret(r, 0, "NotAligned")
    ELSE Bind(updateCrcs(r, r.bitBufferLen \div 8),
              LAMBDA r1 :
                  IF r1.ub THEN Ret(r1, 0, "UB")
                  ELSE IF ~ndebug /\ ~((r1.crc16 \div 65536) # 0) THEN Ret(r1, 0, "Abort")
                  ELSE Ret(r1, r1.crc16 % 65536, "none"))

\* readByte(): through readUint(8) when a byte is buffered, else straight
\* from the byte buffer.
readByte(r, d, w) ==
    IF ~checkByteAligned(r) THEN Ret(r, 0, "NotAligned")
    ELSE IF r.bitBufferLen >= 8
         THEN Bind(readUint(r, d, 8, w), LAMBDA u : Ret(u.r, FromW(u.val), u.err))
         ELSE Bind(readUnderlying(r, d),
                   LAMBDA u : IF u.val = -1 THEN u
                              ELSE Ret([u.r EXCEPT !.taken = @ + 8], u.val, "none"))

\* readFully(b, length): length calls of readUint(8); buf collects the bytes.
RECURSIVE readFully(_, _, _, _, _)
readFully(r, d, buf, length, w) ==
    IF ~checkByteAligned(r) THEN Ret(r, buf, "NotAligned")
    ELSE IF Len(buf) >= length THEN Ret(r, buf, "none")
    ELSE Bind(readUint(r, d, 8, w),
              LAMBDA u : IF u.err # "none" THEN Ret(u.r, buf, u.err)
                         ELSE readFully(u.r, d, Append(buf, FromW(ResizeW(u.val, 8))),
                                        length, w))

---------------------------------------------------------------------------
(* Rice decoding *)

RICE_DECODING_TABLE_BITS == 13
RICE_DECODING_TABLE_MASK == Pow2(RICE_DECODING_TABLE_BITS) - 1
RICE_DECODING_TABLE_LEN == 31
RICE_DECODING_CHUNK == 4

\* The width of the largest unsigned residual, the 53 of
\* unaryLimit = 1UL << (53 - param) and of assert((val >> 53) == 0), scaled
\* down so that a unary run of unaryLimit zero bits fits a short stream.  It
\* stays above RICE_DECODING_TABLE_BITS, as 53 does, so that every value of
\* the tables is below the limit.
RESIDUAL_BITS == 14

\* (i >> 1) ^ -(i & 1)
zigzag(i) == IF i % 2 = 0 THEN i \div 2 ELSE -((i + 1) \div 2)

\* The q = i >> param of the symbols i whose pass through the table-building
\* loops wrote entry idx of the tables of param (at most one q does).  The
\* loops run over i = 0, 1, ... while numBits = (i >> param) + 1 + param <=
\* TABLE_BITS and write the entries (bits << shift) | j, j < 2^shift, that is
\* the idx with idx >> shift = bits = (1 << param) | (i & ((1 << param) - 1));
\* q fixes numBits and shift.
riceTableQs(param, idx) ==
    {q \in 0..RICE_DECODING_TABLE_BITS :
        /\ q + 1 + param <= RICE_DECODING_TABLE_BITS
        /\ (idx \div Pow2(RICE_DECODING_TABLE_BITS - (q + 1 + param))) \div Pow2(param) = 1}

\* The symbol i that wrote entry idx, given its q.
riceTableSymbolOf(param, idx, q) ==
    q * Pow2(param)
    + ((idx \div Pow2(RICE_DECODING_TABLE_BITS - (q + 1 + param))) - Pow2(param))

\* The symbol i that wrote entry idx of the tables of param, or -1 when no
\* pass wrote it.
riceTableSymbol(param, idx) ==
    Bind(riceTableQs(param, idx),
         LAMBDA qs : IF qs = {} THEN -1
                     ELSE riceTableSymbolOf(param, idx, CHOOSE q \in qs : TRUE))

\* RICE_DECODING_CONSUMED_TABLES[param][idx] and
\* RICE_DECODING_VALUE_TABLES[param][idx].  The arrays come from new[] and
\* are not zeroed: an entry no pass wrote holds an indeterminate value, junk,
\* which the model draws anew at every call.
riceConsumed(param, idx, junk) ==
    Bind(riceTableSymbol(param, idx),
         LAMBDA i : IF i = -1 THEN junk ELSE (i \div Pow2(param)) + 1 + param)

riceValue(param, idx, junk) ==
    Bind(riceTableSymbol(param, idx),
         LAMBDA i : IF i = -1 THEN junk ELSE zigzag(i))

RECURSIVE pushBytes(_, _, _)
pushBytes(r, i, n) ==
    IF n <= 0 THEN r ELSE pushBytes(pushByte(r, r.byteBuffer[i]), i + 1, n - 1)

\* The end of fillBitBuffer: the assert, and byteBufferIndex += n.
fillBitBufferEnd(u, n, ndebug) ==
    IF u.err # "none" THEN u
    ELSE IF ~ndebug /\ ~(8 <= u.r.bitBufferLen /\ u.r.bitBufferLen <= 64)
         THEN Ret(u.r, 0, "Abort")
    ELSE Ret([u.r EXCEPT !.byteBufferIndex = @ + n], 0, "none")

\* fillBitBuffer with n = min((64 - bitBufferLen) >> 3, byteBufferLen - i).
fillBitBufferBy(r, d, n, ndebug) ==
    fillBitBufferEnd(
        IF n > 0 THEN Ret(pushBytes(r, r.byteBufferIndex, n), 0, "none")
        ELSE IF r.bitBufferLen <= 56
             THEN Bind(readUnderlying(r, d),
                       LAMBDA t : IF t.val = -1 THEN Ret(t.r, 0, "EndOfStream")
                                  ELSE Ret(pushByte(t.r, t.val), 0, "none"))
             ELSE Ret(r, 0, "none"),
        n, ndebug)

fillBitBuffer(r, d, ndebug) ==
    fillBitBufferBy(r, d,
                    Min((64 - r.bitBufferLen) \div 8, r.byteBufferLen - r.byteBufferIndex),
                    ndebug)

\* The state of a readRiceSignedInts call: the object, the result array (val),
\* start, and how it ended.
RiceRet(r, res, start, err) == [r |-> r, val |-> res, start |-> start, err |-> err]

\* int_fast32_t extractedBits =
\*     (int_fast32_t)(bitBuffer >> (bitBufferLen - TABLE_BITS)) & TABLE_MASK
extractedBits(r) ==
    FromW(AndW(ResizeW(ShrW(r.bitBuffer, r.bitBufferLen - RICE_DECODING_TABLE_BITS), 32),
               ToW(RICE_DECODING_TABLE_MASK, 32)))

\* The fast decoder: up to RICE_DECODING_CHUNK symbols through the tables;
\* err = "middle" is the goto when a symbol does not fit the table.
\* bitBufferLen is a uint_fast8_t: bitBufferLen -= consumed wraps modulo 256,
\* and the shift by bitBufferLen - RICE_DECODING_TABLE_BITS is undefined
\* outside 0..63.
RECURSIVE riceChunk(_, _, _, _, _, _)
riceChunk(r, param, res, start, i, junk) ==
    IF i >= RICE_DECODING_CHUNK THEN RiceRet(r, res, start, "none")
    ELSE IF r.bitBufferLen - RICE_DECODING_TABLE_BITS \notin 0..63
         THEN RiceRet(r, res, start, "UB")
    ELSE Bind(riceConsumed(param, extractedBits(r), junk),
              LAMBDA consumed :
                  IF consumed = 0 THEN RiceRet(r, res, start, "middle")
                  ELSE riceChunk([r EXCEPT !.bitBufferLen = (@ - consumed) % 256,
                                           !.taken = @ + consumed],
                                 param,
                                 [res EXCEPT ![start] =
                                      riceValue(param, extractedBits(r), junk)],
                                 start + 1, i + 1, junk))

\* The unary part of the slow decoder: while (readUint(1) == 0) { if (val >=
\* unaryLimit) throw; val++; }
RECURSIVE riceUnary(_, _, _, _, _)
riceUnary(r, d, val, unaryLimit, w) ==
    Bind(readUint(r, d, 1, w),
         LAMBDA u :
             IF u.err # "none" THEN Ret(u.r, val, u.err)
             ELSE IF IsZeroW(u.val)
                  THEN IF val >= unaryLimit THEN Ret(u.r, val, "ResidualTooLarge")
                       ELSE riceUnary(u.r, d, val + 1, unaryLimit, w)
             ELSE Ret(u.r, val, "none"))

\* The end of the slow decoder: val = (val << param) | readUint(param), the
\* assert on it, and the store of its zigzag.
riceStore(r, val, res, start, ndebug) ==
    IF ~ndebug /\ ~(val \div Pow2(RESIDUAL_BITS) = 0)
    THEN RiceRet(r, res, start, "Abort")
    ELSE RiceRet(r, [res EXCEPT ![start] = zigzag(val)], start + 1, "none")

\* The slow decoder of one symbol.
riceSlow(r, d, param, res, start, B) ==
    Bind(riceUnary(r, d, 0, Pow2(RESIDUAL_BITS - param), Fast32Bits(B.abi)),
         LAMBDA q :
             IF q.err # "none" THEN RiceRet(q.r, res, start, q.err)
             ELSE Bind(readUint(q.r, d, param, Fast32Bits(B.abi)),
                       LAMBDA m :
                           IF m.err # "none" THEN RiceRet(m.r, res, start, m.err)
                           ELSE riceStore(m.r, q.val * Pow2(param) + FromW(m.val),
                                          res, start, B.ndebug)))

RECURSIVE riceLoop(_, _, _, _, _, _, _)
RECURSIVE riceMiddle(_, _, _, _, _)

\* readRiceSignedInts from the label middle, c being the call so far.
riceMiddle(c, d, param, end, B) ==
    IF c.start >= end THEN RiceRet(c.r, c.val, c.start, "none")
    ELSE Bind(riceSlow(c.r, d, param, c.val, c.start, B),
              LAMBDA s : IF s.err # "none" THEN s
                         ELSE riceLoop(s.r, d, param, s.val, s.start, end, B))

\* The bit buffer before a chunk of the fast decoder: filled when it holds
\* less than a chunk may take; err = "break" leaves the inner loop.
riceFill(r, d, ndebug) ==
    IF r.bitBufferLen < RICE_DECODING_CHUNK * RICE_DECODING_TABLE_BITS
    THEN IF r.byteBufferIndex <= r.byteBufferLen - 8
         THEN fillBitBuffer(r, d, ndebug)
         ELSE Ret(r, 0, "break")
    ELSE Ret(r, 0, "none")

\* readRiceSignedInts from the head of its outer loop.
riceLoop(r, d, param, res, start, end, B) ==
    IF start <= end - RICE_DECODING_CHUNK
    THEN Bind(riceFill(r, d, B.ndebug),
              LAMBDA f :
                  IF f.err = "break" THEN riceMiddle(RiceRet(r, res, start, "none"),
                                                     d, param, end, B)
                  ELSE IF f.err # "none" THEN RiceRet(f.r, res, start, f.err)
                  ELSE Bind(riceChunk(f.r, param, res, start, 0, B.junk),
                            LAMBDA c :
                                IF c.err = "middle" THEN riceMiddle(c, d, param, end, B)
                                ELSE IF c.err # "none" THEN c
                                ELSE riceLoop(c.r, d, param, c.val, c.start, end, B)))
    ELSE riceMiddle(RiceRet(r, res, start, "none"), d, param, end, B)

\* RICE_DECODING_CONSUMED_TABLES[param] with param = RICE_DECODING_TABLE_LEN is
\* one past the end of the array of tables.
readRiceSignedInts(r, d, param, res, start, end, B) ==
    IF param < 0 \/ param > 31 THEN RiceRet(r, res, start, "InvalidArgument")
    ELSE IF param >= RICE_DECODING_TABLE_LEN THEN RiceRet(r, res, start, "UB")
    ELSE riceLoop(r, d, param, res, start, end, B)

---------------------------------------------------------------------------
(* The writer: BitOutputStream over an output stream, sink being the bytes *)
(* put to it.  crc8 is a uint_fast8_t, 8 bits wide in either ABI; crc16 is *)
(* a uint_fast16_t.                                                        *)

\* u, and then K of it unless u threw.
Then(u, K(_)) == IF u.err # "none" THEN u ELSE K(u)

\* Conversion of a number below 2^17 to an unsigned type of width bits.
Trunc(x, width) == IF width > 30 THEN x ELSE x % Pow2(width)

\* The word of 32 bits of an int, two's complement.
NotW(b) == [i \in 1..Len(b) |-> 255 - b[i]]
IntW(x) == IF x >= 0 THEN ToW(x, 32) ELSE NotW(ToW(-x - 1, 32))

\* crc <<= 1; crc ^= (crc >> top) * poly; in a field of width bits.
crcShift(c, poly, top, width) ==
    Bind(Trunc(2 * c, width),
         LAMBDA s : Trunc(BitXor(s, (s \div Pow2(top)) * poly), width))

RECURSIVE crcShifts(_, _, _, _, _)
crcShifts(c, poly, top, width, j) ==
    IF j = 0 THEN c ELSE crcShifts(crcShift(c, poly, top, width), poly, top, width, j - 1)

\* One turn of the loop of flush: the top byte b of the bit buffer goes to
\* the sink and into the CRCs.
flushByteAs(w, b, abi) ==
    [w EXCEPT !.bitBufferLen = @ - 8,
              !.sink = Append(@, b),
              !.byteCount = @ + 1,
              !.crc8 = crcShifts(Trunc(BitXor(@, b), 8), 263, 8, 8, 8),
              !.crc16 = crcShifts(Trunc(BitXor(@, b * 256), Fast16Bits(abi)),
                                  98309, 16, Fast16Bits(abi), 8)]

flushByte(w, abi) ==
    flushByteAs(w, FromW(ExtractW(w.bitBuffer, w.bitBufferLen - 8, 8, 8)), abi)

\* BitOutputStream::flush(): its assertions, (crc8 >> 8) == 0 and
\* (crc16 >> 16) == 0 after every shift and bitBufferLen <= 64, hold in every
\* state crcShift and writeInt produce.
RECURSIVE BitOutputStream_flush(_, _)
BitOutputStream_flush(w, abi) ==
    IF w.bitBufferLen >= 8 THEN BitOutputStream_flush(flushByte(w, abi), abi) ELSE w

\* writeIntPut with val not masked.
writeIntPutUnmasked(w, n, v) ==
    Ret([w EXCEPT !.bitBuffer = OrW(ShlW(@, n), ResizeW(v, 64)),
                  !.bitBufferLen = @ + n],
        0, "none")

\* bitBuffer <<= n; bitBuffer |= val & ((1L << n) - 1); bitBufferLen += n; v is
\* the low 32 bits of val.
writeIntPut(w, n, v) ==
    Ret([w EXCEPT !.bitBuffer = OrW(ShlW(@, n), ResizeW(AndW(v, MaskW(n, 32)), 64)),
                  !.bitBufferLen = @ + n],
        0, "none")

writeInt(w, n, v, abi) ==
    IF n < 0 \/ n > 32 THEN Ret(w, 0, "InvalidArgument")
    ELSE writeIntPut(IF w.bitBufferLen + n > 64 THEN BitOutputStream_flush(w, abi) ELSE w,
                     n, v)

\* The fields <<n, val>> of a sequence written one after the other.
RECURSIVE writeInts(_, _, _, _)
writeInts(u, fields, i, abi) ==
    IF u.err # "none" \/ i > Len(fields) THEN u
    ELSE writeInts(writeInt(u.r, fields[i][1], fields[i][2], abi), fields, i + 1, abi)

\* An alignToByte that pads a whole byte at a byte boundary.
alignToByteWholeByte(w, abi) == writeInt(w, 8 - (w.bitBufferLen % 8), IntW(0), abi)

alignToByte(w, abi) == writeInt(w, (64 - w.bitBufferLen) % 8, IntW(0), abi)

BitOutputStream_resetCrcs(w, abi) ==
    Ret([BitOutputStream_flush(w, abi) EXCEPT !.crc8 = 0, !.crc16 = 0], 0, "none")

\* getCrc8/getCrc16 end in assert((crc >> width) != 0), as the reader's do.
crc8Of(f, ndebug) ==
    IF ~ndebug /\ ~((f.crc8 \div 256) # 0) THEN Ret(f, 0, "Abort")
    ELSE Ret(f, f.crc8 % 256, "none")

crc16Of(f, abi, ndebug) ==
    IF ~ndebug /\ ~((f.crc16 \div 65536) # 0) THEN Ret(f, 0, "Abort")
    ELSE Ret(f, Trunc(f.crc16, Fast16Bits(abi)), "none")

BitOutputStream_getCrc8(w, B) ==
    IF w.bitBufferLen % 8 # 0 THEN Ret(w, 0, "NotAligned")
    ELSE crc8Of(BitOutputStream_flush(w, B.abi), B.ndebug)

BitOutputStream_getCrc16(w, B) ==
    IF w.bitBufferLen % 8 # 0 THEN Ret(w, 0, "NotAligned")
    ELSE crc16Of(BitOutputStream_flush(w, B.abi), B.abi, B.ndebug)

\* A close() that flushes before it tests the alignment.
closeFlushingFirst(w, abi) ==
    IF w.out = "nullptr" THEN Ret(w, 0, "none")
    ELSE IF w.bitBufferLen % 8 # 0 THEN Ret(BitOutputStream_flush(w, abi), 0, "NotAligned")
    ELSE Ret([BitOutputStream_flush(w, abi) EXCEPT !.out = "nullptr"], 0, "none")

\* BitOutputStream::close(): checkByteAligned(), flush(), the file behind out
\* closed, out = nullptr; nothing when out is nullptr already.
BitOutputStream_close(w, abi) ==
    IF w.out = "nullptr" THEN Ret(w, 0, "none")
    ELSE IF w.bitBufferLen % 8 # 0 THEN Ret(w, 0, "NotAligned")
    ELSE Ret([BitOutputStream_flush(w, abi) EXCEPT !.out = "nullptr"], 0, "none")

getByteCount(w) == w.byteCount + (w.bitBufferLen \div 8)

\* The object after BitOutputStream(out): its resetCrcs() finds nothing to
\* flush.  sink is what the stream out has been given.
NewWriter ==
    [bitBuffer |-> ZeroW(64), bitBufferLen |-> 0, byteCount |-> 0,
     crc8 |-> 0, crc16 |-> 0, out |-> "out", sink |-> <<>>]

---------------------------------------------------------------------------
(* Utilities.h and FrameInfo.  Utilities.h defines numberOfLeadingZeros    *)
(* for uint_fast32_t and for uint_fast64_t, which are one type with glibc: *)
(* its users are built where the two differ, with the 32-bit ABI widths.   *)

\* if (x >> (32 - k) == 0) { n += k; x <<= k; } on a word of 32 bits.  For
\* the int x of the 64-bit overload the shifts are those of a signed type:
\* x >> s is zero for the same x, and x <<= k keeps the low 32 bits.
nlzStep(st, k) ==
    IF IsZeroW(ShrW(st.x, 32 - k)) THEN [n |-> st.n + k, x |-> ShlW(st.x, k)] ELSE st

nlzSteps(n, x) == nlzStep(nlzStep(nlzStep(nlzStep([n |-> n, x |-> x], 16), 8), 4), 2)

\* numberOfLeadingZeros(uint_fast32_t): n -= i >> 31 takes the top bit away.
nlz32End(st) == st.n - (st.x[1] \div 128)

numberOfLeadingZeros32(i) == IF IsZeroW(i) THEN 32 ELSE nlz32End(nlzSteps(1, i))

\* numberOfLeadingZeros(uint_fast64_t): x is an int, and n -= x >> 31 takes
\* away 0 or -1.
nlz64End(st) == st.n - (IF st.x[1] >= 128 THEN -1 ELSE 0)

numberOfLeadingZeros64(i) ==
    IF IsZeroW(i) THEN 64
    ELSE IF IsZeroW(SubSeq(i, 1, 4)) THEN nlz64End(nlzSteps(33, SubSeq(i, 5, 8)))
    ELSE nlz64End(nlzSteps(1, SubSeq(i, 1, 4)))

BLOCK_SIZE_CODES ==
    << <<192, 1>>, <<576, 2>>, <<1152, 3>>, <<2304, 4>>, <<4608, 5>>, <<256, 8>>,
       <<512, 9>>, <<1024, 10>>, <<2048, 11>>, <<4096, 12>>, <<8192, 13>>,
       <<16384, 14>>, <<32768, 15>> >>

SAMPLE_DEPTH_CODES == << <<8, 1>>, <<12, 2>>, <<16, 4>>, <<20, 5>>, <<24, 6>> >>

SAMPLE_RATE_CODES ==
    << <<88200, 1>>, <<176400, 2>>, <<192000, 3>>, <<8000, 4>>, <<16000, 5>>,
       <<22050, 6>>, <<24000, 7>>, <<32000, 8>>, <<44100, 9>>, <<48000, 10>>,
       <<96000, 11>> >>

RECURSIVE searchFrom(_, _, _, _, _)
searchFrom(table, key, i, at, give) ==
    IF i > Len(table) THEN -1
    ELSE IF table[i][at] = key THEN table[i][give]
    ELSE searchFrom(table, key, i + 1, at, give)

searchFirst(table, key) == searchFrom(table, key, 1, 1, 2)
searchSecond(table, key) == searchFrom(table, key, 1, 2, 1)

\* A value, or the exception thrown instead.
Val(v) == [val |-> v, err |-> "none"]
Throw(e) == [val |-> 0, err |-> e]

getBlockSizeCodeOf(blockSize, result) ==
    IF result # -1 THEN Val(result)
    ELSE IF 1 <= blockSize /\ blockSize <= 256 THEN Val(6)
    ELSE IF 1 <= blockSize /\ blockSize <= 65536 THEN Val(7)
    ELSE Throw("InvalidArgument")

getBlockSizeCode(blockSize) ==
    getBlockSizeCodeOf(blockSize, searchFirst(BLOCK_SIZE_CODES, blockSize))

getSampleRateCodeOf(sampleRate, result) ==
    IF result # -1 THEN Val(result)
    ELSE IF 0 <= sampleRate /\ sampleRate < 256 THEN Val(12)
    ELSE IF 0 <= sampleRate /\ sampleRate < 65536 THEN Val(13)
    ELSE IF 0 <= sampleRate /\ sampleRate < 655360 /\ sampleRate % 10 = 0 THEN Val(14)
    ELSE Val(0)

\* getSampleRateCode giving code 14 to rates that are no multiple of 10.
getSampleRateCodeAnyRate(sampleRate) ==
    IF sampleRate <= 0 THEN Throw("InvalidArgument")
    ELSE IF searchFirst(SAMPLE_RATE_CODES, sampleRate) # -1
    THEN Val(searchFirst(SAMPLE_RATE_CODES, sampleRate))
    ELSE IF sampleRate < 256 THEN Val(12)
    ELSE IF sampleRate < 65536 THEN Val(13)
    ELSE IF sampleRate < 655360 THEN Val(14)
    ELSE Val(0)

getSampleRateCode(sampleRate) ==
    IF sampleRate <= 0 THEN Throw("InvalidArgument")
    ELSE getSampleRateCodeOf(sampleRate, searchFirst(SAMPLE_RATE_CODES, sampleRate))

getSampleDepthCodeOf(result) == IF result = -1 THEN Val(0) ELSE Val(result)

getSampleDepthCode(sampleDepth) ==
    IF sampleDepth # -1 /\ (sampleDepth < 1 \/ sampleDepth > 32) THEN Throw("InvalidArgument")
    ELSE getSampleDepthCodeOf(searchFirst(SAMPLE_DEPTH_CODES, sampleDepth))

\* The bytes after the first of writeUtf8Integer: 0x80 | ((val >> (i * 6)) & 0x3F)
\* for i = n - 1 .. 0.
RECURSIVE writeUtf8Tail(_, _, _, _)
writeUtf8Tail(u, val, i, abi) ==
    IF u.err # "none" \/ i < 0 THEN u
    ELSE writeUtf8Tail(
             writeInt(u.r, 8,
                      OrW(ToW(128, 32), AndW(ResizeW(ShrW(val, i * 6), 32), ToW(63, 32))),
                      abi),
             val, i - 1, abi)

\* writeUtf8Integer with n = (bitLen - 2) / 5 bytes after the first.
writeUtf8Long(w, val, n, abi) ==
    writeUtf8Tail(writeInt(w, 8,
                           OrW(ToW(65408 \div Pow2(n), 32), ResizeW(ShrW(val, n * 6), 32)),
                           abi),
                  val, n - 1, abi)

writeUtf8OfLen(w, val, bitLen, abi) ==
    IF bitLen <= 7 THEN writeInt(w, 8, ResizeW(val, 32), abi)
    ELSE writeUtf8Long(w, val, (bitLen - 2) \div 5, abi)

\* FrameInfo::writeUtf8Integer(val, out), val a word of 64 bits.
writeUtf8Integer(w, val, abi) ==
    IF ~IsZeroW(ShrW(val, 36)) THEN Ret(w, 0, "InvalidArgument")
    ELSE writeUtf8OfLen(w, val, 64 - numberOfLeadingZeros64(val), abi)

\* The loop of readUtf8Integer: i more bytes of the form 10xxxxxx.
RECURSIVE readUtf8Tail(_, _, _, _)
readUtf8Tail(u, d, i, w) ==
    IF u.err # "none" \/ i <= 0 THEN u
    ELSE Bind(readUint(u.r, d, 8, w),
              LAMBDA t :
                  IF t.err # "none" THEN Ret(t.r, u.val, t.err)
                  ELSE IF BitAnd(FromW(t.val), 192) # 128
                       THEN Ret(t.r, u.val, "DataFormat")
                  ELSE readUtf8Tail(
                           Ret(t.r,
                               OrW(ShlW(u.val, 6), ToW(BitAnd(FromW(t.val), 63), 64)),
                               "none"),
                           d, i - 1, w))

readUtf8End(u) ==
    IF u.err = "none" /\ ~IsZeroW(ShrW(u.val, 36)) THEN Ret(u.r, u.val, "DataFormat")
    ELSE u

\* readUtf8Integer once head is read, n being the count of its leading 1 bits.
readUtf8Of(r, d, head, n, w) ==
    IF n = 0 THEN Ret(r, ToW(head, 64), "none")
    ELSE IF n = 1 \/ n = 8 THEN Ret(r, ZeroW(64), "DataFormat")
    ELSE readUtf8End(readUtf8Tail(Ret(r, ToW(BitAnd(head, 127 \div Pow2(n)), 64), "none"),
                                  d, n - 1, w))

\* FrameInfo::readUtf8Integer(in): a word of 64 bits.
readUtf8Integer(r, d, w) ==
    Bind(readUint(r, d, 8, w),
         LAMBDA h :
             IF h.err # "none" THEN Ret(h.r, ZeroW(64), h.err)
             ELSE readUtf8Of(h.r, d, FromW(h.val),
                             numberOfLeadingZeros32(NotW(ShlW(ResizeW(h.val, 32), 24))),
                             w))

\* The object after FrameInfo(); sampleOffset, an int_fast64_t, is a word.
MinusOneW(w) == [i \in 1..(w \div 8) |-> 255]

NewFrameInfo ==
    [frameIndex |-> -1, sampleOffset |-> MinusOneW(64), numChannels |-> -1,
     channelAssignment |-> -1, blockSize |-> -1, sampleRate |-> -1,
     sampleDepth |-> -1, frameSize |-> -1]

\* writeHeader up to the blocking strategy.
writeHeaderSync(w, abi) ==
    writeInts(BitOutputStream_resetCrcs(w, abi),
              << <<14, IntW(16382)>>, <<1, IntW(0)>>, <<1, IntW(1)>> >>, 1, abi)

\* out->writeInt(n, code) of a code that a getter computed or threw.
writeCode(u, n, c, abi) ==
    IF c.err # "none" THEN Ret(u.r, 0, c.err) ELSE writeInt(u.r, n, IntW(c.val), abi)

writeHeaderCodes(u, F, abi) ==
    Then(writeCode(u, 4, getBlockSizeCode(F.blockSize), abi),
         LAMBDA a :
    Then(writeCode(a, 4, getSampleRateCode(F.sampleRate), abi),
         LAMBDA b :
    Then(writeInt(b.r, 4, IntW(F.channelAssignment), abi),
         LAMBDA c :
    Then(writeCode(c, 3, getSampleDepthCode(F.sampleDepth), abi),
         LAMBDA e : writeInt(e.r, 1, IntW(0), abi)))))

writeHeaderPosition(u, F, abi) ==
    IF \/ (F.frameIndex # -1 /\ F.sampleOffset = MinusOneW(64))
       \/ (F.sampleOffset # MinusOneW(64) /\ F.frameIndex = -1)
    THEN writeUtf8Integer(u.r, F.sampleOffset, abi)
    ELSE Ret(u.r, 0, "Runtime")

writeHeaderBlockSize(u, F, code, abi) ==
    IF code = 6 THEN writeInt(u.r, 8, IntW(F.blockSize - 1), abi)
    ELSE IF code = 7 THEN writeInt(u.r, 16, IntW(F.blockSize - 1), abi)
    ELSE u

writeHeaderSampleRate(u, F, code, abi) ==
    IF code = 12 THEN writeInt(u.r, 8, IntW(F.sampleRate), abi)
    ELSE IF code = 13 THEN writeInt(u.r, 16, IntW(F.sampleRate), abi)
    ELSE IF code = 14 THEN writeInt(u.r, 16, IntW(F.sampleRate \div 10), abi)
    ELSE u

\* out->writeInt(8, out->getCrc8())
writeHeaderCrc(u, B) ==
    Then(BitOutputStream_getCrc8(u.r, B),
         LAMBDA c : writeInt(c.r, 8, IntW(c.val), B.abi))

\* FrameInfo::writeHeader(out)
writeHeader(F, w, B) ==
    Then(writeHeaderSync(w, B.abi),
         LAMBDA a :
    Then(writeHeaderCodes(a, F, B.abi),
         LAMBDA b :
    Then(writeHeaderPosition(b, F, B.abi),
         LAMBDA c :
    Then(writeHeaderBlockSize(c, F, getBlockSizeCode(F.blockSize).val, B.abi),
         LAMBDA e :
    Then(writeHeaderSampleRate(e, F, getSampleRateCode(F.sampleRate).val, B.abi),
         LAMBDA f : writeHeaderCrc(f, B))))))

\* readUint(n) as a number, for n below 32.
readNum(r, d, n, w) ==
    Bind(readUint(r, d, n, w), LAMBDA u : Ret(u.r, FromW(u.val), u.err))

\* u, then readUint(n), then K of the number read; what u carries is kept when
\* the read throws.
ThenRead(u, d, n, w, K(_, _)) ==
    IF u.err # "none" THEN u
    ELSE Bind(readNum(u.r, d, n, w),
              LAMBDA t : IF t.err # "none" THEN Ret(t.r, u.val, t.err)
                         ELSE K(Ret(t.r, u.val, "none"), t.val))

decodeBlockSize(u, d, code, w) ==
    IF code \div 16 # 0 THEN Ret(u.r, u.val, "InvalidArgument")
    ELSE IF code = 0 THEN Ret(u.r, u.val, "DataFormat")
    ELSE IF code = 6
         THEN ThenRead(u, d, 8, w,
                       LAMBDA t, v : Ret(t.r, [t.val EXCEPT !.blockSize = v + 1], "none"))
    ELSE IF code = 7
         THEN ThenRead(u, d, 16, w,
                       LAMBDA t, v : Ret(t.r, [t.val EXCEPT !.blockSize = v + 1], "none"))
    ELSE Ret(u.r, [u.val EXCEPT !.blockSize = searchSecond(BLOCK_SIZE_CODES, code)], "none")

decodeSampleRate(u, d, code, w) ==
    IF code \div 16 # 0 THEN Ret(u.r, u.val, "InvalidArgument")
    ELSE IF code = 0 THEN Ret(u.r, [u.val EXCEPT !.sampleRate = -1], "none")
    ELSE IF code = 12
         THEN ThenRead(u, d, 8, w,
                       LAMBDA t, v : Ret(t.r, [t.val EXCEPT !.sampleRate = v], "none"))
    ELSE IF code = 13
         THEN ThenRead(u, d, 16, w,
                       LAMBDA t, v : Ret(t.r, [t.val EXCEPT !.sampleRate = v], "none"))
    ELSE IF code = 14
         THEN ThenRead(u, d, 16, w,
                       LAMBDA t, v : Ret(t.r, [t.val EXCEPT !.sampleRate = v * 10], "none"))
    ELSE IF code = 15 THEN Ret(u.r, u.val, "DataFormat")
    ELSE Ret(u.r, [u.val EXCEPT !.sampleRate = searchSecond(SAMPLE_RATE_CODES, code)], "none")

decodeSampleDepthOf(u, result) ==
    IF result = -1 THEN Ret(u.r, u.val, "DataFormat")
    ELSE Ret(u.r, [u.val EXCEPT !.sampleDepth = result], "none")

decodeSampleDepth(u, code) ==
    IF code \div 8 # 0 THEN Ret(u.r, u.val, "InvalidArgument")
    ELSE IF code = 0 THEN Ret(u.r, [u.val EXCEPT !.sampleDepth = -1], "none")
    ELSE decodeSampleDepthOf(u, searchSecond(SAMPLE_DEPTH_CODES, code))

\* readFrame from the sync bits to the blocking strategy and the codes; temp
\* is the byte readByte() returned.  The codes travel with the result in
\* fields of their own.
readFrameSync(r, d, temp, w) ==
    ThenRead(Ret(r, [NewFrameInfo EXCEPT !.frameSize = -1], "none"), d, 6, w,
             LAMBDA a, low :
                 IF BitOr(temp * 64, low) % 65536 # 16382 THEN Ret(a.r, a.val, "DataFormat")
                 ELSE ThenRead(a, d, 1, w,
                               LAMBDA b, reserved :
                                   IF reserved # 0 THEN Ret(b.r, b.val, "DataFormat")
                                   ELSE b))

readFrameCodes(u, d, w) ==
    ThenRead(u, d, 1, w, LAMBDA a, blockStrategy :
    ThenRead(a, d, 4, w, LAMBDA b, blockSizeCode :
    ThenRead(b, d, 4, w, LAMBDA c, sampleRateCode :
        Ret(c.r, [F |-> c.val, blockStrategy |-> blockStrategy,
                  blockSizeCode |-> blockSizeCode, sampleRateCode |-> sampleRateCode],
            "none"))))

setChannels(u, chanAsgn) ==
    IF chanAsgn < 8
    THEN Ret(u.r, [u.val EXCEPT !.channelAssignment = chanAsgn,
                                !.numChannels = chanAsgn + 1], "none")
    ELSE IF 8 <= chanAsgn /\ chanAsgn <= 10
    THEN Ret(u.r, [u.val EXCEPT !.channelAssignment = chanAsgn, !.numChannels = 2], "none")
    ELSE Ret(u.r, [u.val EXCEPT !.channelAssignment = chanAsgn], "DataFormat")

readFrameChannels(u, d, w) ==
    ThenRead(u, d, 4, w, LAMBDA a, chanAsgn :
    Then(setChannels(a, chanAsgn), LAMBDA b :
    ThenRead(b, d, 3, w, LAMBDA c, code :
    Then(decodeSampleDepth(c, code), LAMBDA e :
    ThenRead(e, d, 1, w, LAMBDA f, reserved :
        IF reserved # 0 THEN Ret(f.r, f.val, "DataFormat") ELSE f)))))

setPosition(u, position, blockStrategy) ==
    IF blockStrategy = 0
    THEN IF ~IsZeroW(ShrW(position, 31)) THEN Ret(u.r, u.val, "DataFormat")
         ELSE Ret(u.r, [u.val EXCEPT !.frameIndex = FromW(position),
                                     !.sampleOffset = MinusOneW(64)], "none")
    ELSE IF blockStrategy = 1
    THEN Ret(u.r, [u.val EXCEPT !.sampleOffset = position, !.frameIndex = -1], "none")
    ELSE Ret(u.r, u.val, "DataFormat")

readFramePosition(u, d, blockStrategy, w) ==
    Bind(readUtf8Integer(u.r, d, w),
         LAMBDA p : IF p.err # "none" THEN Ret(p.r, u.val, p.err)
                    ELSE setPosition(Ret(p.r, u.val, "none"), p.val, blockStrategy))

\* readFrameCrc that compares with the byte read before.
readFrameCrcNotReading(u, d, B) ==
    Bind(getCrc8(u.r, B.ndebug),
         LAMBDA c : IF c.err # "none" THEN Ret(c.r, u.val, c.err)
                    ELSE Ret(c.r, u.val, "none"))

\* uint_fast8_t computedCrc8 = in->getCrc8(); if (in->readUint(8) != computedCrc8) throw
readFrameCrc(u, d, B) ==
    Bind(getCrc8(u.r, B.ndebug),
         LAMBDA c :
             IF c.err # "none" THEN Ret(c.r, u.val, c.err)
             ELSE ThenRead(Ret(c.r, u.val, "none"), d, 8, Fast32Bits(B.abi),
                           LAMBDA t, v : IF v # c.val THEN Ret(t.r, t.val, "DataFormat")
                                         ELSE t))

\* readFrame after the codes: F is the frame so far.
readFrameRest(r, d, F, codes, B) ==
    Then(readFrameChannels(Ret(r, F, "none"), d, Fast32Bits(B.abi)), LAMBDA a :
    Then(readFramePosition(a, d, codes.blockStrategy, Fast32Bits(B.abi)), LAMBDA b :
    Then(decodeBlockSize(b, d, codes.blockSizeCode, Fast32Bits(B.abi)), LAMBDA c :
    Then(decodeSampleRate(c, d, codes.sampleRateCode, Fast32Bits(B.abi)), LAMBDA e :
        readFrameCrc(e, d, B)))))

\* readFrame once readByte() has returned temp.
readFrameFrom(r, d, temp, B) ==
    Then(readFrameSync(r, d, temp, Fast32Bits(B.abi)), LAMBDA a :
    Then(readFrameCodes(a, d, Fast32Bits(B.abi)), LAMBDA b :
        readFrameRest(b.r, d, b.val.F, b.val, B)))

\* FrameInfo::readFrame(in): the frame, or "null" at the end of the stream.
readFrame(r, d, B) ==
    Then(resetCrcs(r), LAMBDA a :
    Bind(readByte(a.r, d, Fast32Bits(B.abi)),
         LAMBDA t : IF t.err # "none" THEN t
                    ELSE IF t.val = -1 THEN Ret(t.r, "null", "none")
                    ELSE readFrameFrom(t.r, d, t.val, B)))

---------------------------------------------------------------------------
(* StreamInfo.  The fields are numbers but numSamples, a uint_fast64_t,    *)
(* which is a word of 64 bits, and md5Hash, 16 bytes.                      *)

MD5_DIGEST_LENGTH == 16

\* The object before the parsing constructor has assigned its fields.
NoStreamInfo ==
    [minBlockSize |-> 0, maxBlockSize |-> 0, minFrameSize |-> 0, maxFrameSize |-> 0,
     sampleRate |-> 0, numChannels |-> 0, sampleDepth |-> 0,
     numSamples |-> ZeroW(64), md5Hash |-> <<>>]

\* field = in->readUint(n) + plus
readField(u, d, n, w, field, plus) ==
    ThenRead(u, d, n, w,
             LAMBDA t, v : Ret(t.r, [t.val EXCEPT ![field] = v + plus], "none"))

\* throw DataFormatException unless u threw already or ok holds of the object.
checkParsed(u, ok(_)) ==
    IF u.err # "none" \/ ok(u.val) THEN u ELSE Ret(u.r, u.val, "DataFormat")

parseSizes(u, d, w) ==
    checkParsed(
        readField(readField(readField(readField(u, d, 16, w, "minBlockSize", 0),
                                      d, 16, w, "maxBlockSize", 0),
                            d, 24, w, "minFrameSize", 0),
                  d, 24, w, "maxFrameSize", 0),
        LAMBDA S : /\ ~(S.minBlockSize < 16)
                   /\ ~(S.maxBlockSize < S.minBlockSize)
                   /\ ~(S.minFrameSize # 0 /\ S.maxFrameSize # 0
                            /\ S.maxFrameSize < S.minFrameSize))

\* The sample rate parsed with no upper limit.
parseSampleRateAnyWidth(u, d, w) ==
    checkParsed(readField(u, d, 20, w, "sampleRate", 0),
                LAMBDA S : ~(S.sampleRate = 0))

parseSampleRate(u, d, w) ==
    checkParsed(readField(u, d, 20, w, "sampleRate", 0),
                LAMBDA S : ~(S.sampleRate = 0 \/ S.sampleRate > 655350))

parseChannelsAndDepth(u, d, w) ==
    readField(readField(u, d, 3, w, "numChannels", 1), d, 5, w, "sampleDepth", 1)

\* (long) left << 18 | right, the operands being what the two calls of
\* readUint(18) returned; long is 64 bits wide in both ABIs.
joinNumSamples(left, right) == OrW(ShlW(ToW(left, 64), 18), ToW(right, 64))

\* The two calls of readUint(18) are operands of one |, so the language does
\* not say which is made first: order is the one the compiler chose.
EvaluationOrders == {"leftFirst", "rightFirst"}

parseNumSamples(u, d, order, w) ==
    ThenRead(u, d, 18, w, LAMBDA t, first :
    ThenRead(t, d, 18, w, LAMBDA s, second :
        Ret(s.r,
            [s.val EXCEPT !.numSamples = IF order = "leftFirst"
                                         THEN joinNumSamples(first, second)
                                         ELSE joinNumSamples(second, first)],
            "none")))

parseMd5Hash(u, d, w) ==
    Then(u, LAMBDA t :
        Bind(readFully(t.r, d, <<>>, MD5_DIGEST_LENGTH, w),
             LAMBDA m : Ret(m.r, [t.val EXCEPT !.md5Hash = m.val], m.err)))

\* StreamInfo(b, length): r is the ByteArrayFlacInput it makes over b.
StreamInfo_parse(b, order, w) ==
    IF Len(b) # 34 THEN Ret(NewReader, NoStreamInfo, "InvalidArgument")
    ELSE parseMd5Hash(
             parseNumSamples(
                 parseChannelsAndDepth(
                     parseSampleRate(
                         parseSizes(Ret(NewReader, NoStreamInfo, "none"), b, w),
                         b, w),
                     b, w),
                 b, order, w),
             b, w)

\* checkValues without its test of the sample depth.
checkValuesAnyDepth(S) ==
    IF S.minBlockSize \div Pow2(16) # 0 THEN "Runtime"
    ELSE IF S.maxBlockSize \div Pow2(16) # 0 THEN "Runtime"
    ELSE IF S.minFrameSize \div Pow2(24) # 0 THEN "Runtime"
    ELSE IF S.maxFrameSize \div Pow2(24) # 0 THEN "Runtime"
    ELSE IF S.sampleRate = 0 \/ S.sampleRate \div Pow2(20) # 0 THEN "Runtime"
    ELSE IF S.numChannels < 1 \/ S.numChannels > 8 THEN "Runtime"
    ELSE IF ~IsZeroW(ShrW(S.numSamples, 36)) THEN "Runtime"
    ELSE "none"

StreamInfo_checkValues(S) ==
    IF S.minBlockSize \div Pow2(16) # 0 THEN "Runtime"
    ELSE IF S.maxBlockSize \div Pow2(16) # 0 THEN "Runtime"
    ELSE IF S.minFrameSize \div Pow2(24) # 0 THEN "Runtime"
    ELSE IF S.maxFrameSize \div Pow2(24) # 0 THEN "Runtime"
    ELSE IF S.sampleRate = 0 \/ S.sampleRate \div Pow2(20) # 0 THEN "Runtime"
    ELSE IF S.numChannels < 1 \/ S.numChannels > 8 THEN "Runtime"
    ELSE IF S.sampleDepth < 4 \/ S.sampleDepth > 32 THEN "Runtime"
    ELSE IF ~IsZeroW(ShrW(S.numSamples, 36)) THEN "Runtime"
    ELSE "none"

\* The calls of writeInt StreamInfo::write makes, in order.
streamInfoFields(S, last) ==
    << <<1, IntW(IF last THEN 1 ELSE 0)>>, <<7, IntW(0)>>, <<24, IntW(34)>>,
       <<16, IntW(S.minBlockSize)>>, <<16, IntW(S.maxBlockSize)>>,
       <<24, IntW(S.minFrameSize)>>, <<24, IntW(S.maxFrameSize)>>,
       <<20, IntW(S.sampleRate)>>,
       <<3, IntW(S.numChannels - 1)>>, <<5, IntW(S.sampleDepth - 1)>>,
       <<18, ResizeW(ShrW(S.numSamples, 18), 32)>>,
       <<18, ResizeW(ShrW(S.numSamples, 0), 32)>> >>
    \o [i \in 1..Len(S.md5Hash) |-> <<8, IntW(S.md5Hash[i])>>]

StreamInfo_write(S, last, w, abi) ==
    IF StreamInfo_checkValues(S) # "none" THEN Ret(w, 0, StreamInfo_checkValues(S))
    ELSE writeInts(Ret(w, 0, "none"), streamInfoFields(S, last), 1, abi)

---------------------------------------------------------------------------
(* SeekTable.  A SeekPoint holds two words of 64 bits and a number.  The   *)
(* vector points is held as the sequence points followed by more copies of *)
(* one placeholder point, so that a table beyond the limit of write can be *)
(* told without its sixteen megabytes.                                     *)

\* (uint_fast64_t) (buf[k] & 0xff) << s
byteAt64(b, i, k, s) == ShlW(ToW(BitAnd(b[i + k + 1], 255), 64), s)

\* convertToUint64(b + i)
convertToUint64(b, i) ==
    OrW(OrW(OrW(byteAt64(b, i, 0, 56), byteAt64(b, i, 1, 48)),
            OrW(byteAt64(b, i, 2, 40), byteAt64(b, i, 3, 32))),
        OrW(OrW(byteAt64(b, i, 4, 24), byteAt64(b, i, 5, 16)),
            OrW(byteAt64(b, i, 6, 8), byteAt64(b, i, 7, 0))))

convertToUint16LowFirst(b, i) ==
    BitOr(BitAnd(b[i + 2], 255) * Pow2(8), BitAnd(b[i + 1], 255))

\* convertToUint16(b + i)
convertToUint16(b, i) ==
    BitOr(BitAnd(b[i + 1], 255) * Pow2(8), BitAnd(b[i + 2], 255))

SeekPoint(sampleOffset, fileOffset, frameSamples) ==
    [sampleOffset |-> sampleOffset, fileOffset |-> fileOffset,
     frameSamples |-> frameSamples]

\* The point more stands for: sampleOffset is 0xFFFFFFFFFFFFFFFF.
PlaceholderPoint == SeekPoint(MinusOneW(64), ZeroW(64), 0)

\* SeekTable(): points = std::vector<SeekPoint>()
NewSeekTable == [points |-> <<>>, more |-> 0]

\* points.size()
pointsSize(T) == Len(T.points) + T.more

\* points.at(i), i counted from 0
pointAt(T, i) == IF i < Len(T.points) THEN T.points[i + 1] ELSE PlaceholderPoint

\* The loop of the parsing constructor from byte i on.
RECURSIVE parsePoints(_, _, _)
parsePoints(T, b, i) ==
    IF ~(i < Len(b)) THEN T
    ELSE parsePoints([T EXCEPT !.points = Append(@, SeekPoint(convertToUint64(b, i),
                                                           convertToUint64(b, i + 8),
                                                           convertToUint16(b, i + 16)))],
                     b, i + 18)

\* SeekTable(b, length)
SeekTable_parse(b) ==
    IF Len(b) % 18 # 0 THEN [val |-> NewSeekTable, err |-> "InvalidArgument"]
    ELSE [val |-> parsePoints(NewSeekTable, b, 0), err |-> "none"]

\* a < b of two unsigned words of one width
LtW(a, b) == \E i \in 1..Len(a) : a[i] < b[i] /\ \A j \in 1..(i - 1) : a[j] = b[j]

\* One turn of the loop of checkValues: what it throws of points.at(i).
\* The test of one point without that of the file offsets.
checkPointSampleOffsetOnly(p, q) ==
    IF p.sampleOffset = MinusOneW(64) THEN "none"
    ELSE IF ~LtW(q.sampleOffset, p.sampleOffset) THEN "Runtime"
    ELSE "none"

checkPoint(p, q) ==
    IF p.sampleOffset = MinusOneW(64) THEN "none"
    ELSE IF ~LtW(q.sampleOffset, p.sampleOffset) THEN "Runtime"
    ELSE IF LtW(p.fileOffset, q.fileOffset) THEN "Runtime"
    ELSE "none"

\* The loop of checkValues from i on; past the points held one by one every
\* point is a placeholder and nothing is thrown.
RECURSIVE checkPointsFrom(_, _)
checkPointsFrom(T, i) ==
    IF ~(i < pointsSize(T)) \/ ~(i < Len(T.points)) THEN "none"
    ELSE IF checkPoint(pointAt(T, i), pointAt(T, i - 1)) # "none"
    THEN checkPoint(pointAt(T, i), pointAt(T, i - 1))
    ELSE checkPointsFrom(T, i + 1)

SeekTable_checkValues(T) == checkPointsFrom(T, 1)

\* The calls of writeInt the loop of SeekTable::write makes for one point.
seekPointFields(p) ==
    << <<32, ResizeW(ShrW(p.sampleOffset, 32), 32)>>,
       <<32, ResizeW(ShrW(p.sampleOffset, 0), 32)>>,
       <<32, ResizeW(ShrW(p.fileOffset, 32), 32)>>,
       <<32, ResizeW(ShrW(p.fileOffset, 0), 32)>>,
       <<16, IntW(p.frameSamples)>> >>

RECURSIVE writePoints(_, _, _, _)
writePoints(u, T, i, abi) ==
    IF u.err # "none" \/ ~(i < pointsSize(T)) THEN u
    ELSE writePoints(writeInts(u, seekPointFields(pointAt(T, i)), 1, abi), T, i + 1, abi)

\* ((1 << 24) - 1) / 18
SeekPointLimit == (Pow2(24) - 1) \div 18

SeekTable_write(T, last, w, abi) ==
    IF pointsSize(T) > SeekPointLimit THEN Ret(w, 0, "Runtime")
    ELSE IF SeekTable_checkValues(T) # "none" THEN Ret(w, 0, SeekTable_checkValues(T))
    ELSE writePoints(
             writeInts(Ret(w, 0, "none"),
                       << <<1, IntW(IF last THEN 1 ELSE 0)>>, <<7, IntW(3)>>,
                          <<24, IntW(pointsSize(T) * 18)>> >>,
                       1, abi),
             T, 0, abi)

---------------------------------------------------------------------------
(* The reader as a state machine: a client calling its operations in any   *)
(* order on a ByteArrayFlacInput over data.  out is the last call: its     *)
(* name, argument, value and exception, with the bits taken and the bits   *)
(* buffered when it was made.  ghost.spanStart is the byte offset of the   *)
(* last resetCrcs, ghost.clean says that every read so far has returned    *)
(* without an exception and without the end-of-stream value -1.            *)

\* Streams read by the reader.  The first starts with five Rice symbols of
\* param 0 that end at byte 3 (the last a run of 16 zero bits, longer than
\* the tables cover), holds unary runs of 2 and of 3 zero bits at the bytes 3
\* and 1, and is longer than BUF_SIZE; the second is shorter than a word.
Streams ==
    { <<166, 0, 1, 32, 5, 77, 111, 110, 107, 101, 121, 1>>,
      <<255, 0, 128>> }

\* Arguments drawn by the client.
ReadWidths == {0, 4, 32}
FullyLengths == {2}

Outcome(u) == IF u.r.ub THEN "UB" ELSE u.err

\* The call op(arg) that ended as u.
Call(op, arg, u) ==
    /\ ~Halts(out.err)
    /\ rd' = u.r
    /\ out' = [op |-> op, arg |-> arg, val |-> u.val, err |-> Outcome(u),
               from |-> rd.taken, len |-> rd.bitBufferLen]
    /\ UNCHANGED <<build, data, wr>>

\* A read: ghost.clean falls when it throws or returns -1.
Read(op, arg, u) ==
    /\ Call(op, arg, u)
    /\ ghost' = [ghost EXCEPT !.clean = @ /\ Outcome(u) = "none"
                                          /\ ~(op = "readByte" /\ u.val = -1)]

W == Fast32Bits(build.abi)

InitReader(streams) ==
    /\ data \in streams
    /\ rd = NewReader
    /\ wr = <<>>
    /\ out = [op |-> "new", arg |-> 0, val |-> 0, err |-> "none", from |-> 0, len |-> 0]
    /\ ghost = [spanStart |-> 0, clean |-> TRUE]

Init ==
    /\ build \in Builds
    /\ InitReader(Streams)

ReadUintOf(widths) ==
    \E n \in widths : Read("readUint", n, readUint(rd, data, n, W))

ReadUint == ReadUintOf(ReadWidths)

ReadByte == Read("readByte", 0, readByte(rd, data, W))

ReadFully ==
    \E length \in FullyLengths :
        Read("readFully", length, readFully(rd, data, <<>>, length, W))

\* A client that reads nibbles, bytes and words.
Next ==
    \/ ReadUint
    \/ ReadFully

Spec == Init /\ [][Next]_vars

---------------------------------------------------------------------------
(* Signed reads by a client that also reads nibbles. *)

SignedWidths == {1, 4, 7, 32}
SignedReadWidths == {4}

ReadSignedInt ==
    \E n \in SignedWidths : Read("readSignedInt", n, readSignedInt(rd, data, n, W))

NextSigned ==
    \/ ReadSignedInt
    \/ ReadUintOf(SignedReadWidths)

SpecSigned == Init /\ [][NextSigned]_vars

---------------------------------------------------------------------------
(* Reads that run into the end of the stream or ask for too many bits, by  *)
(* a client that goes on reading after a failed call.                      *)

EndReadWidths == {3, 8, 32, 33}

ReadUintToEnd == ReadUintOf(EndReadWidths)

NextEnd == ReadUintToEnd

SpecEnd == Init /\ [][NextEnd]_vars

---------------------------------------------------------------------------
(* Rice decoding by a client that also reads bytes, which moves the calls  *)
(* to other offsets of the stream.                                         *)

\* Values an entry of the Rice tables that no pass wrote may hold: the zero
\* of a fresh page, a small count, and a count that four symbols of a chunk
\* cannot all take from the 64 bits buffered.
Junk == {0, 1, 17}

\* <<param, start, end>> of the calls: five symbols of param 0, four through
\* the tables and one bit by bit; one symbol of param 13, for which
\* unaryLimit is 2; four symbols of param 13, none of which the tables hold.
RiceCalls == { <<0, 0, 5>>, <<13, 1, 2>>, <<13, 0, 4>> }
RiceReadWidths == {8}
ResultLen == 6

\* The result array handed to readRiceSignedInts, filled with marks that no
\* decoded value equals.
FreshResult == [i \in 0..(ResultLen - 1) |-> 100000 + i]

ReadRiceSignedIntsOf(calls) ==
    \E c \in calls, junk \in Junk :
        Read("readRiceSignedInts", c,
             readRiceSignedInts(rd, data, c[1], FreshResult, c[2], c[3],
                                [abi |-> build.abi, ndebug |-> build.ndebug,
                                 junk |-> junk]))

ReadRiceSignedInts == ReadRiceSignedIntsOf(RiceCalls)

NextRice ==
    \/ ReadRiceSignedInts
    \/ ReadUintOf(RiceReadWidths)

SpecRice == Init /\ [][NextRice]_vars

---------------------------------------------------------------------------
(* Rice parameters: calls of readRiceSignedInts with the parameters at and *)
(* beyond both ends of the range it accepts.  The parameters above         *)
(* RESIDUAL_BITS come with no symbol to decode, or with four symbols for   *)
(* the tables.                                                             *)

ParamCalls ==
    { <<-1, 0, 4>>, <<0, 0, 5>>, <<13, 1, 2>>, <<30, 0, 0>>,
      <<31, 0, 0>>, <<31, 0, 4>>, <<32, 0, 4>> }

ReadRiceParams == ReadRiceSignedIntsOf(ParamCalls)

NextRiceParam ==
    \/ ReadRiceParams
    \/ ReadUintOf(RiceReadWidths)

SpecRiceParam == Init /\ [][NextRiceParam]_vars

---------------------------------------------------------------------------
(* CRC spans: a client that reads whole bytes and takes the CRCs.  The CRC *)
(* fields hold 8 and 16 bits in either ABI, so one ABI is drawn.           *)

CrcStreams == { <<77, 165, 0, 1, 32, 5, 77, 111, 110, 107>> }
CrcRiceCalls == { <<0, 0, 4>> }

ResetCrcsTo(u) ==
    /\ Call("resetCrcs", 0, u)
    /\ ghost' = IF u.err = "none" THEN [ghost EXCEPT !.spanStart = rd.taken \div 8]
                ELSE ghost

ResetCrcs == ResetCrcsTo(resetCrcs(rd))

GetCrc8 == Call("getCrc8", 0, getCrc8(rd, build.ndebug)) /\ UNCHANGED ghost

GetCrc16 == Call("getCrc16", 0, getCrc16(rd, build.ndebug)) /\ UNCHANGED ghost

InitCrc ==
    /\ build \in {b \in Builds : b.abi = "darwin"}
    /\ InitReader(CrcStreams)

NextCrc ==
    \/ ReadByte
    \/ ReadRiceSignedIntsOf(CrcRiceCalls)
    \/ ResetCrcs
    \/ GetCrc8
    \/ GetCrc16

SpecCrc == InitCrc /\ [][NextCrc]_vars

---------------------------------------------------------------------------
(* Calls that need a byte boundary, by a client that also reads 3 and 5    *)
(* bits and so leaves the reader inside a byte.                            *)

AlignStreams == { <<255, 0, 128>>, <<77, 165, 0, 1>> }
AlignReadWidths == {3, 5}
AlignFullyLengths == {2}

ReadFullyOf(lengths) ==
    \E length \in lengths :
        Read("readFully", length, readFully(rd, data, <<>>, length, W))

InitAligned ==
    /\ build \in Builds
    /\ InitReader(AlignStreams)

NextAligned ==
    \/ ReadUintOf(AlignReadWidths)
    \/ ReadByte
    \/ ReadFullyOf(AlignFullyLengths)
    \/ ResetCrcs
    \/ GetCrc8
    \/ GetCrc16

SpecAligned == InitAligned /\ [][NextAligned]_vars

---------------------------------------------------------------------------
(* Seeking: a client that reads 3, 8 and 13 bits, also past the end, and   *)
(* seeks to every position of the stream, its end included.                *)

SeekReadWidths == {3, 8, 13}

SeekTo ==
    \E pos \in 0..Len(data) :
        /\ Call("seekTo", pos, seekTo(rd, pos))
        /\ ghost' = [ghost EXCEPT !.spanStart = pos]

NextSeek ==
    \/ SeekTo
    \/ ReadUintOf(SeekReadWidths)

SpecSeek == Init /\ [][NextSeek]_vars

---------------------------------------------------------------------------
(* Seeking anywhere: seekTo takes any position, also one past the end of   *)
(* the array.                                                              *)

SeekBeyond == 2

SeekAnyReadWidths == {8}

SeekToAny ==
    \E pos \in 0..(Len(data) + SeekBeyond) :
        /\ Call("seekTo", pos, seekTo(rd, pos))
        /\ ghost' = [ghost EXCEPT !.spanStart = pos]

NextSeekAny ==
    \/ SeekToAny
    \/ ReadUintOf(SeekAnyReadWidths)
    \/ ReadByte

SpecSeekAny == Init /\ [][NextSeekAny]_vars

---------------------------------------------------------------------------
(* Round trips: a client writes an object to a BitOutputStream, closes it  *)
(* (close() flushes) and reads the bytes back through a ByteArrayFlacInput. *)
(* ghost.item is the object written.                                       *)

InitCodec(builds) ==
    /\ build \in builds
    /\ data = <<>>
    /\ rd = NewReader
    /\ wr = NewWriter
    /\ out = [op |-> "new", arg |-> 0, val |-> 0, err |-> "none", from |-> 0, len |-> 0]
    /\ ghost = [spanStart |-> 0, clean |-> TRUE, item |-> <<>>, wcrc |-> -1]

\* The builds of the files that include Utilities.h, and of StreamInfo.cpp,
\* whose std::min(numSamples, 2048ULL) needs uint_fast64_t to be unsigned
\* long long.
UtilitiesBuilds == {b \in Builds : b.abi = "darwin"}

\* The call op(item) on the writer that ended as u.
Encode(op, item, u) ==
    /\ ~Halts(out.err)
    /\ wr' = u.r
    /\ out' = [op |-> op, arg |-> item, val |-> u.val, err |-> u.err,
               from |-> 0, len |-> 0]
    /\ UNCHANGED <<build, data, rd>>

\* The writer once closed.
Closed == BitOutputStream_flush(wr, build.abi)

\* The call op on a new reader over bytes that ended as u, the writer closed.
Decode(op, bytes, u) ==
    /\ ~Halts(out.err)
    /\ wr' = Closed
    /\ data' = bytes
    /\ rd' = u.r
    /\ out' = [op |-> op, arg |-> bytes, val |-> u.val, err |-> Outcome(u),
               from |-> 0, len |-> 0]
    /\ UNCHANGED <<build, ghost>>

---------------------------------------------------------------------------
(* UTF-8 coded integers *)

\* The width of the integers the coding holds.
UTF8_BITS == 36

\* The values written: 2^k - 1 and 2^k, the ends of the ranges of every
\* length of the coding, 2^UTF8_BITS being the first that does not fit.
Utf8Values ==
    {MaskW(k, 64) : k \in 0..UTF8_BITS} \cup {ShlW(ToW(1, 64), k) : k \in 0..UTF8_BITS}

WriteUtf8Integer ==
    \E v \in Utf8Values :
        /\ out.op = "new"
        /\ Encode("writeUtf8Integer", v, writeUtf8Integer(wr, v, build.abi))
        /\ ghost' = [ghost EXCEPT !.item = v]

ReadUtf8Integer ==
    /\ out.op = "writeUtf8Integer"
    /\ out.err = "none"
    /\ Decode("readUtf8Integer", Closed.sink, readUtf8Integer(NewReader, Closed.sink, W))

NextUtf8 == WriteUtf8Integer \/ ReadUtf8Integer

InitUtf8 == InitCodec(UtilitiesBuilds)

SpecUtf8 == InitUtf8 /\ [][NextUtf8]_vars

---------------------------------------------------------------------------
(* Frame headers *)

FrameOffsets == {ToW(0, 64), ToW(127, 64), MaskW(UTF8_BITS, 64)}
FrameChannelAssignments == {0, 7, 10}
FrameBlockSizes == {1, 192, 257, 65536}
FrameSampleRates == {-1, 255, 44100, 65535, 655350}
FrameSampleDepths == {-1, 8, 24}

\* A FrameInfo as an encoder fills it in.
FrameOf(offset, chanAsgn, blockSize, sampleRate, sampleDepth) ==
    [NewFrameInfo EXCEPT !.sampleOffset = offset,
                         !.channelAssignment = chanAsgn,
                         !.numChannels = IF chanAsgn < 8 THEN chanAsgn + 1 ELSE 2,
                         !.blockSize = blockSize,
                         !.sampleRate = sampleRate,
                         !.sampleDepth = sampleDepth]

Frames ==
    {FrameOf(o, c, b, r, s) : o \in FrameOffsets, c \in FrameChannelAssignments,
                              b \in FrameBlockSizes, r \in FrameSampleRates,
                              s \in FrameSampleDepths}

WriteHeader ==
    \E F \in Frames :
        /\ out.op = "new"
        /\ Encode("writeHeader", F, writeHeader(F, wr, build))
        /\ ghost' = [ghost EXCEPT !.item = F]

ReadFrame ==
    /\ out.op = "writeHeader"
    /\ out.err = "none"
    /\ Decode("readFrame", Closed.sink, readFrame(NewReader, Closed.sink, build))

NextFrame == WriteHeader \/ ReadFrame

InitFrame == InitCodec(UtilitiesBuilds)

SpecFrame == InitFrame /\ [][NextFrame]_vars

---------------------------------------------------------------------------
(* Frame headers written from a FrameInfo in which frameIndex, sampleOffset, *)
(* both or neither are set, its other fields being ones writeHeader codes. *)

PositionFrameIndexes == {-1, 0, 5}
PositionOffsets == {MinusOneW(64), ToW(0, 64), ToW(127, 64), MaskW(UTF8_BITS, 64)}
PositionSampleRates == {255, 44100}

PositionFrames ==
    {[FrameOf(o, c, b, r, s) EXCEPT !.frameIndex = i] :
        i \in PositionFrameIndexes, o \in PositionOffsets,
        c \in FrameChannelAssignments, b \in FrameBlockSizes,
        r \in PositionSampleRates, s \in FrameSampleDepths}

WritePositionHeader ==
    \E F \in PositionFrames :
        /\ out.op = "new"
        /\ Encode("writeHeader", F, writeHeader(F, wr, build))
        /\ ghost' = [ghost EXCEPT !.item = F]

NextWriteHeader == WritePositionHeader

InitWriteHeader == InitCodec(UtilitiesBuilds)

SpecWriteHeader == InitWriteHeader /\ [][NextWriteHeader]_vars

---------------------------------------------------------------------------
(* The CRC-8 of the writer and of the reader over the same bytes *)

CrcBytes == {0, 1, 255}
MaxCrcBytes == 3

WriteInt8 ==
    \E b \in CrcBytes :
        /\ out.op \in {"new", "writeInt"}
        /\ Len(ghost.item) < MaxCrcBytes
        /\ Encode("writeInt", b, writeInt(wr, 8, IntW(b), build.abi))
        /\ ghost' = [ghost EXCEPT !.item = Append(@, b)]

WriterGetCrc8To(u) ==
    /\ out.op \in {"new", "writeInt"}
    /\ Encode("BitOutputStream_getCrc8", 0, u)
    /\ ghost' = [ghost EXCEPT !.wcrc = u.val]

WriterGetCrc8 == WriterGetCrc8To(BitOutputStream_getCrc8(wr, build))

\* The bytes written handed to a new ByteArrayFlacInput, whose constructor
\* resets the CRCs.
Open ==
    /\ out.op = "BitOutputStream_getCrc8"
    /\ out.err = "none"
    /\ Decode("open", Closed.sink, Ret(NewReader, 0, "none"))

ReadAll ==
    /\ out.op = "open"
    /\ Read("readFully", Len(data), readFully(rd, data, <<>>, Len(data), W))

ReaderGetCrc8 ==
    /\ out.op = "readFully"
    /\ GetCrc8

NextWriterCrc == WriteInt8 \/ WriterGetCrc8 \/ Open \/ ReadAll \/ ReaderGetCrc8

InitWriterCrc == InitCodec(Builds)

SpecWriterCrc == InitWriterCrc /\ [][NextWriterCrc]_vars

---------------------------------------------------------------------------
(* Metadata blocks: the client strips the 4 bytes of the block header and  *)
(* hands the payload to the parsing constructor.                           *)

\* The bits of the three fields of a block header, in bytes.
METADATA_HEADER_LEN == (1 + 7 + 24) \div 8

Payload(bytes) == SubSeq(bytes, METADATA_HEADER_LEN + 1, Len(bytes))

\* numSamples of the halves hi and lo of 18 bits.
Samples(hi, lo) == OrW(ShlW(ToW(hi, 64), 18), ToW(lo, 64))

StreamBlockSizes == {<<16, 16>>, <<4096, 65535>>}
StreamFrameSizes == {<<0, 0>>, <<1, 16777215>>}
StreamSampleRates == {0, 1, 655350}
StreamChannelsAndDepths == {<<1, 4>>, <<8, 32>>}
StreamNumSamples ==
    {Samples(0, 0), Samples(0, 1), Samples(174762, 87381), Samples(262143, 262143)}
StreamMd5Hashes ==
    {[i \in 1..MD5_DIGEST_LENGTH |-> 0], [i \in 1..MD5_DIGEST_LENGTH |-> 256 - i]}

\* A StreamInfo as its owner fills it in.
StreamInfoOf(blocks, frames, rate, shape, samples, md5) ==
    [minBlockSize |-> blocks[1], maxBlockSize |-> blocks[2],
     minFrameSize |-> frames[1], maxFrameSize |-> frames[2],
     sampleRate |-> rate, numChannels |-> shape[1], sampleDepth |-> shape[2],
     numSamples |-> samples, md5Hash |-> md5]

StreamInfos ==
    {StreamInfoOf(b, f, r, c, n, m) :
        b \in StreamBlockSizes, f \in StreamFrameSizes, r \in StreamSampleRates,
        c \in StreamChannelsAndDepths, n \in StreamNumSamples, m \in StreamMd5Hashes}

WriteStreamInfo ==
    \E S \in StreamInfos, last \in BOOLEAN :
        /\ out.op = "new"
        /\ Encode("StreamInfo_write", <<S, last>>, StreamInfo_write(S, last, wr, build.abi))
        /\ ghost' = [ghost EXCEPT !.item = S]

ParseStreamInfo ==
    \E order \in EvaluationOrders :
        /\ out.op = "StreamInfo_write"
        /\ out.err = "none"
        /\ Decode("StreamInfo_parse", Payload(Closed.sink),
                  StreamInfo_parse(Payload(Closed.sink), order, W))

InitStreamInfo == InitCodec(UtilitiesBuilds)

NextStreamInfo == WriteStreamInfo \/ ParseStreamInfo

SpecStreamInfo == InitStreamInfo /\ [][NextStreamInfo]_vars

---------------------------------------------------------------------------
(* Seek tables *)

\* The points of the tables written: the two of a plain table, one whose
\* bytes all differ, and a placeholder with the other fields set.
SeekPoints ==
    {SeekPoint(ZeroW(64), ZeroW(64), 4096),
     SeekPoint(ToW(4096, 64), ToW(1024, 64), 4096),
     SeekPoint(<<1, 2, 3, 4, 5, 6, 7, 8>>, <<9, 10, 11, 12, 13, 14, 15, 16>>, 4370),
     SeekPoint(MinusOneW(64), ToW(7, 64), 65535)}

\* The most points a table holds one by one.
MaxSeekPoints == 2

SeqsUpTo(S, n) == UNION {[1..k -> S] : k \in 0..n}

\* Tables of a few points, with and without a placeholder after them, and
\* tables of one point more than write accepts.
SeekTables ==
    {[points |-> p, more |-> m] : p \in SeqsUpTo(SeekPoints, MaxSeekPoints), m \in {0, 1}}
        \cup {[points |-> p, more |-> SeekPointLimit + 1 - Len(p)] :
                  p \in SeqsUpTo(SeekPoints, 1)}

\* The vector of a table of few points, one by one.
Points(T) == T.points \o [i \in 1..T.more |-> PlaceholderPoint]

WriteSeekTable ==
    \E T \in SeekTables, last \in BOOLEAN :
        /\ out.op = "new"
        /\ Encode("SeekTable_write", <<T, last>>, SeekTable_write(T, last, wr, build.abi))
        /\ ghost' = [ghost EXCEPT !.item = T]

\* The outcome u of a constructor that reads no stream.
Built(u) == Ret(rd, u.val, u.err)

ParseSeekTable ==
    /\ out.op = "SeekTable_write"
    /\ out.err = "none"
    /\ Decode("SeekTable_parse", Payload(Closed.sink),
              Built(SeekTable_parse(Payload(Closed.sink))))

InitSeekTable == InitCodec(UtilitiesBuilds)

NextSeekTable == WriteSeekTable \/ ParseSeekTable

SpecSeekTable == InitSeekTable /\ [][NextSeekTable]_vars

---------------------------------------------------------------------------
(* The writer as a state machine: a client calling its operations in any   *)
(* order.  ghost.bits are the bits the calls were given, in call order,    *)
(* ghost.calls counts the calls, ghost.spanStart is the number of bits     *)
(* written when resetCrcs was last called and ghost.clean says that it was *)
(* called at a byte boundary.                                              *)

\* The most calls a client makes.
MaxWriterCalls == 4

WriteWidths == {0, 3, 32}
WriteValues == {MinusOneW(32), <<18, 52, 86, 121>>}

\* The low n bits of a word of 32 bits, most significant first.
LowBits(v, n) == [i \in 1..n |-> (v[((31 - n + i) \div 8) + 1] \div Pow2(7 - ((31 - n + i) % 8))) % 2]

\* The bits that bring a stream of n bits to a byte boundary.
Padding(n) == [i \in 1..((8 - (n % 8)) % 8) |-> 0]

InitWriter ==
    /\ build \in Builds
    /\ data = <<>>
    /\ rd = NewReader
    /\ wr = NewWriter
    /\ out = [op |-> "new", arg |-> 0, val |-> 0, err |-> "none", from |-> 0, len |-> 0]
    /\ ghost = [bits |-> <<>>, calls |-> 0, spanStart |-> 0, clean |-> TRUE]

\* The call op(arg) on the writer that ended as u, bits being what it was
\* given to write.
WriterCall(op, arg, u, bits) ==
    /\ ghost.calls < MaxWriterCalls
    /\ Encode(op, arg, u)
    /\ ghost' = [ghost EXCEPT !.calls = @ + 1,
                              !.bits = IF u.err = "none" THEN @ \o bits ELSE @]

WriteIntOf(widths, values) ==
    \E n \in widths, v \in values :
        WriterCall("writeInt", <<n, v>>, writeInt(wr, n, v, build.abi), LowBits(v, n))

WriteInt == WriteIntOf(WriteWidths, WriteValues)

Flush ==
    WriterCall("flush", 0, Ret(BitOutputStream_flush(wr, build.abi), 0, "none"), <<>>)

AlignToByte ==
    WriterCall("alignToByte", 0, alignToByte(wr, build.abi), Padding(Len(ghost.bits)))

WriterResetCrcs ==
    /\ ghost.calls < MaxWriterCalls
    /\ Encode("BitOutputStream_resetCrcs", 0, BitOutputStream_resetCrcs(wr, build.abi))
    /\ ghost' = [ghost EXCEPT !.calls = @ + 1,
                              !.spanStart = Len(ghost.bits),
                              !.clean = (Len(ghost.bits) % 8 = 0)]

WriterCrc8 ==
    WriterCall("BitOutputStream_getCrc8", 0, BitOutputStream_getCrc8(wr, build), <<>>)

WriterCrc16 ==
    WriterCall("BitOutputStream_getCrc16", 0, BitOutputStream_getCrc16(wr, build), <<>>)

NextWriter ==
    \/ WriteInt
    \/ Flush
    \/ AlignToByte
    \/ WriterResetCrcs
    \/ WriterCrc8
    \/ WriterCrc16

SpecWriter == InitWriter /\ [][NextWriter]_vars

---------------------------------------------------------------------------
(* The operations of the writer that need a byte boundary, called by a     *)
(* client at and off byte boundaries, with whole bytes buffered or none.   *)

BoundaryWriteWidths == {3, 5, 8}

BoundaryWriteInt == wr.out # "nullptr" /\ WriteIntOf(BoundaryWriteWidths, WriteValues)

BoundaryCrc8 == wr.out # "nullptr" /\ WriterCrc8

BoundaryCrc16 == wr.out # "nullptr" /\ WriterCrc16

BoundaryClose ==
    WriterCall("BitOutputStream_close", 0, BitOutputStream_close(wr, build.abi), <<>>)

NextBoundary == BoundaryWriteInt \/ BoundaryCrc8 \/ BoundaryCrc16 \/ BoundaryClose

SpecBoundary == InitWriter /\ [][NextBoundary]_vars

---------------------------------------------------------------------------
(* Closing: a client with a reader and a writer, which reads to the end of *)
(* the stream and inside bytes, writes inside bytes, and closes either at  *)
(* any time and more than once.  It does not use an object it has closed   *)
(* for anything but close().                                               *)

CloseStreams == { <<255, 0, 128>> }
CloseReadWidths == {13}
CloseWriteWidths == {3, 5}
CloseWriteValues == { <<18, 52, 86, 121>> }

InitClose ==
    /\ build \in Builds
    /\ data \in CloseStreams
    /\ rd = NewReader
    /\ wr = NewWriter
    /\ out = [op |-> "new", arg |-> 0, val |-> 0, err |-> "none", from |-> 0, len |-> 0]
    /\ ghost = [bits |-> <<>>, calls |-> 0, spanStart |-> 0, clean |-> TRUE]

OpenReadUint == rd.data # "nullptr" /\ ReadUintOf(CloseReadWidths)

OpenReadByte == rd.data # "nullptr" /\ ReadByte

ReaderClose ==
    /\ Call("ByteArrayFlacInput_close", 0, ByteArrayFlacInput_close(rd))
    /\ UNCHANGED ghost

OpenWriteInt == wr.out # "nullptr" /\ WriteIntOf(CloseWriteWidths, CloseWriteValues)

OpenWriterCrc8 == wr.out # "nullptr" /\ WriterCrc8

WriterClose ==
    /\ Encode("BitOutputStream_close", 0, BitOutputStream_close(wr, build.abi))
    /\ UNCHANGED ghost

NextClose ==
    \/ OpenReadUint
    \/ OpenReadByte
    \/ ReaderClose
    \/ OpenWriteInt
    \/ OpenWriterCrc8
    \/ WriterClose

SpecClose == InitClose /\ [][NextClose]_vars

---------------------------------------------------------------------------
(* StreamInfo::checkFrame.  The fields of the frame are signed and those   *)
(* of the stream info unsigned: a comparison of the two is made in the     *)
(* type the conversions of the language give it.                           *)

\* (T)x for a signed x and T unsigned of w bits.
Unsigned(x, w) == IF x >= 0 THEN ToW(x, w) ELSE NotW(ToW(-x - 1, w))

\* meta->blockSize > maxBlockSize: maxBlockSize, a uint_fast16_t, is promoted
\* to int where it has 16 bits; where it has 64, blockSize is converted to it.
blockSizeExceeds(blockSize, maxBlockSize, abi) ==
    IF Fast16Bits(abi) = 16 THEN blockSize > maxBlockSize
    ELSE LtW(ToW(maxBlockSize, 64), Unsigned(blockSize, 64))

\* StreamInfo::checkFrame(meta): the exception thrown, "none" when it returns.
checkFrame(S, F, abi) ==
    IF F.numChannels # S.numChannels THEN "DataFormat"
    ELSE IF /\ F.sampleRate # -1
            /\ Unsigned(F.sampleRate, Fast32Bits(abi)) # ToW(S.sampleRate, Fast32Bits(abi))
    THEN "DataFormat"
    ELSE IF F.sampleDepth # -1 /\ F.sampleDepth # S.sampleDepth THEN "DataFormat"
    ELSE IF ~IsZeroW(S.numSamples) /\ LtW(S.numSamples, Unsigned(F.blockSize, 64))
    THEN "DataFormat"
    ELSE IF blockSizeExceeds(F.blockSize, S.maxBlockSize, abi) THEN "DataFormat"
    ELSE IF /\ S.minFrameSize # 0
            /\ LtW(Unsigned(F.frameSize, Fast32Bits(abi)),
                   ToW(S.minFrameSize, Fast32Bits(abi)))
    THEN "DataFormat"
    ELSE IF /\ S.maxFrameSize # 0
            /\ LtW(ToW(S.maxFrameSize, Fast32Bits(abi)),
                   Unsigned(F.frameSize, Fast32Bits(abi)))
    THEN "DataFormat"
    ELSE "none"

\* Stream infos of 2 channels, 44100 Hz, 16 bits and blocks of 16 to 4096
\* samples, with the frame sizes and the number of samples known or not.
CheckStreamInfos ==
    {StreamInfoOf(<<16, 4096>>, <<f, g>>, 44100, <<2, 16>>, n, <<>>) :
        f \in {0, 100}, g \in {0, 200}, n \in {ZeroW(64), ToW(1000, 64)}}

\* Frames that agree with them or differ in one field or more, with the
\* markers of the unknown.
CheckFrames ==
    {[NewFrameInfo EXCEPT !.sampleOffset = ZeroW(64), !.numChannels = c,
                          !.channelAssignment = c - 1, !.blockSize = b,
                          !.sampleRate = r, !.sampleDepth = d, !.frameSize = z] :
        c \in {1, 2}, b \in {192, 4096, 4608}, r \in {-1, 44100, 48000},
        d \in {-1, 16, 24}, z \in {-1, 50, 150, 250}}

CheckFrame ==
    /\ out.op = "new"
    /\ \E S \in CheckStreamInfos, F \in CheckFrames :
        /\ out' = [op |-> "checkFrame", arg |-> F, val |-> <<S, F>>,
                   err |-> checkFrame(S, F, build.abi), from |-> 0, len |-> 0]
        /\ ghost' = [ghost EXCEPT !.item = S]
        /\ UNCHANGED <<build, data, rd, wr>>

NextCheckFrame == CheckFrame

InitCheckFrame == InitCodec(UtilitiesBuilds)

SpecCheckFrame == InitCheckFrame /\ [][NextCheckFrame]_vars

---------------------------------------------------------------------------
(* StreamInfo::checkValues on stream infos whose owner has set fields to   *)
(* values of any kind, and on a blank one.                                 *)

\* What numChannels and sampleDepth, which StreamInfo() does not set, may
\* hold.
Indeterminate8 == {0, 2, 16, 205}

\* StreamInfo()
BlankStreamInfo(channels, depth) ==
    [NoStreamInfo EXCEPT !.numChannels = channels, !.sampleDepth = depth,
                         !.md5Hash = [i \in 1..MD5_DIGEST_LENGTH |-> 0]]

CheckedBlockSizes ==
    {<<16, 4096>>, <<0, 0>>, <<15, 4096>>, <<4096, 16>>, <<16, 65535>>,
     <<16, 65536>>, <<65536, 65536>>}
CheckedFrameSizes ==
    {<<0, 0>>, <<100, 200>>, <<200, 100>>, <<16777216, 0>>, <<0, 16777216>>}
CheckedSampleRates == {0, 1, 655350, 655351, 1048575, 1048576}
CheckedChannelsAndDepths ==
    {<<1, 4>>, <<8, 32>>, <<0, 16>>, <<9, 16>>, <<2, 3>>, <<2, 33>>}
CheckedNumSamples == {MaskW(36, 64), ShlW(ToW(1, 64), 36)}

\* The stream infos of these values that the fields of the build can hold:
\* a uint_fast16_t of 16 bits holds no 65536.
CheckedStreamInfos(abi) ==
    {StreamInfoOf(b, f, r, c, n, [i \in 1..MD5_DIGEST_LENGTH |-> 0]) :
        b \in {x \in CheckedBlockSizes :
                  Fast16Bits(abi) = 16 => (x[1] < 65536 /\ x[2] < 65536)},
        f \in CheckedFrameSizes, r \in CheckedSampleRates,
        c \in CheckedChannelsAndDepths, n \in CheckedNumSamples}

CheckValues ==
    /\ out.op = "new"
    /\ \E S \in CheckedStreamInfos(build.abi) :
        /\ out' = [op |-> "checkValues", arg |-> S, val |-> S,
                   err |-> StreamInfo_checkValues(S), from |-> 0, len |-> 0]
        /\ ghost' = [ghost EXCEPT !.item = S]
        /\ UNCHANGED <<build, data, rd, wr>>

CheckBlank ==
    /\ out.op = "new"
    /\ \E channels \in Indeterminate8, depth \in Indeterminate8 :
        /\ out' = [op |-> "blank_checkValues",
                   arg |-> BlankStreamInfo(channels, depth),
                   val |-> BlankStreamInfo(channels, depth),
                   err |-> StreamInfo_checkValues(BlankStreamInfo(channels, depth)),
                   from |-> 0, len |-> 0]
        /\ ghost' = [ghost EXCEPT !.item = BlankStreamInfo(channels, depth)]
        /\ UNCHANGED <<build, data, rd, wr>>

WriteChecked ==
    /\ out.op = "new"
    /\ \E S \in CheckedStreamInfos(build.abi), last \in BOOLEAN :
        /\ Encode("StreamInfo_write", <<S, last>>, StreamInfo_write(S, last, wr, build.abi))
        /\ ghost' = [ghost EXCEPT !.item = S]

NextCheckValues == CheckValues \/ CheckBlank \/ WriteChecked

InitCheckValues == InitCodec(UtilitiesBuilds)

SpecCheckValues == InitCheckValues /\ [][NextCheckValues]_vars

---------------------------------------------------------------------------
(* The parsing constructor of StreamInfo on payloads a file may hold.      *)

\* The payload of a stream info block with the fields f, the channels and
\* the depth being the numbers of the fields of 3 and 5 bits, and numSamples
\* below 2^31.
StreamInfoPayload(f) ==
    << f.minBlockSize \div 256, f.minBlockSize % 256,
       f.maxBlockSize \div 256, f.maxBlockSize % 256,
       f.minFrameSize \div 65536, (f.minFrameSize \div 256) % 256, f.minFrameSize % 256,
       f.maxFrameSize \div 65536, (f.maxFrameSize \div 256) % 256, f.maxFrameSize % 256,
       f.sampleRate \div 4096, (f.sampleRate \div 16) % 256,
       (f.sampleRate % 16) * 16 + f.channels * 2 + f.depth \div 16,
       (f.depth % 16) * 16,
       f.numSamples \div 16777216, (f.numSamples \div 65536) % 256,
       (f.numSamples \div 256) % 256, f.numSamples % 256 >>
    \o [i \in 1..MD5_DIGEST_LENGTH |-> 16 * i - 1]

ParsedBlockSizes ==
    {<<0, 0>>, <<15, 15>>, <<16, 16>>, <<16, 15>>, <<4096, 65535>>, <<65535, 16>>}
ParsedFrameSizes ==
    {<<0, 0>>, <<100, 200>>, <<200, 100>>, <<0, 100>>, <<100, 0>>, <<16777215, 1>>}
ParsedSampleRates == {0, 1, 44100, 655350, 655351, 1048575}
ParsedChannelsAndDepths == {<<0, 0>>, <<1, 15>>, <<7, 31>>}

ParsedFields ==
    {[minBlockSize |-> b[1], maxBlockSize |-> b[2], minFrameSize |-> z[1],
      maxFrameSize |-> z[2], sampleRate |-> r, channels |-> c[1], depth |-> c[2],
      numSamples |-> 262145] :
        b \in ParsedBlockSizes, z \in ParsedFrameSizes, r \in ParsedSampleRates,
        c \in ParsedChannelsAndDepths}

\* The lengths of the payloads handed in: the payload, one cut short and
\* one with bytes after it.
PayloadLengths == {0, 33, 34, 35}

Resized(bytes, n) == [i \in 1..n |-> IF i <= Len(bytes) THEN bytes[i] ELSE 0]

ParsePayload ==
    /\ out.op = "new"
    /\ \E f \in ParsedFields, n \in PayloadLengths, order \in EvaluationOrders :
        /\ n # 34 => (f.sampleRate = 44100 /\ f.minBlockSize = 16)
        /\ ghost' = [ghost EXCEPT !.item = f]
        /\ data' = Resized(StreamInfoPayload(f), n)
        /\ Bind(StreamInfo_parse(Resized(StreamInfoPayload(f), n), order, W),
                LAMBDA u :
                    /\ rd' = u.r
                    /\ out' = [op |-> "StreamInfo_parse", arg |-> n, val |-> u.val,
                               err |-> Outcome(u), from |-> 0, len |-> 0])
        /\ UNCHANGED <<build, wr>>

NextParsePayload == ParsePayload

InitParsePayload == InitCodec(UtilitiesBuilds)

SpecParsePayload == InitParsePayload /\ [][NextParsePayload]_vars

---------------------------------------------------------------------------
(* SeekTable::checkValues on lists of points in any order.                 *)

\* Points that are in order, out of order or equal in one field or the
\* other, one with a sample offset above 2^63, and a placeholder.
CheckedPoints ==
    {SeekPoint(ZeroW(64), ZeroW(64), 4096),
     SeekPoint(ToW(4096, 64), ToW(1024, 64), 4096),
     SeekPoint(ToW(4096, 64), ToW(2048, 64), 4096),
     SeekPoint(ToW(8192, 64), ToW(1024, 64), 4096),
     SeekPoint(ToW(8192, 64), ToW(512, 64), 4608),
     SeekPoint(<<128, 0, 0, 0, 0, 0, 0, 0>>, <<255, 0, 0, 0, 0, 0, 0, 0>>, 65535),
     SeekPoint(MinusOneW(64), ToW(7, 64), 65535)}

\* The most points of a list checked.
MaxCheckedPoints == 3

CheckedTables ==
    {[points |-> p, more |-> m] :
        p \in SeqsUpTo(CheckedPoints, MaxCheckedPoints), m \in {0, 1}}

CheckPoints ==
    /\ out.op = "new"
    /\ \E T \in CheckedTables :
        /\ out' = [op |-> "SeekTable_checkValues", arg |-> T, val |-> T,
                   err |-> SeekTable_checkValues(T), from |-> 0, len |-> 0]
        /\ ghost' = [ghost EXCEPT !.item = Points(T)]
        /\ UNCHANGED <<build, data, rd, wr>>

NextCheckPoints == CheckPoints

InitCheckPoints == InitCodec(UtilitiesBuilds)

SpecCheckPoints == InitCheckPoints /\ [][NextCheckPoints]_vars

---------------------------------------------------------------------------
(* The codes of a frame header: the encoder chooses a code for a value,    *)
(* writeHeader writes the tail of the code, and the decoder is handed the  *)
(* code and reads the tail.                                                *)

TableValues(table) == {table[i][1] : i \in DOMAIN table}

CodedBlockSizes == (-1..260) \cup {65535, 65536, 65537} \cup TableValues(BLOCK_SIZE_CODES)
CodedSampleRates ==
    (-1..260) \cup {65535, 65536, 65540, 65541, 655350, 655351, 655359, 655360,
                    655370, 1000000}
        \cup TableValues(SAMPLE_RATE_CODES)
CodedSampleDepths == -2..34

\* The call op(x) threw err.
CodeRefused(op, x, err) ==
    /\ out' = [op |-> op, arg |-> x, val |-> NewFrameInfo, err |-> err,
               from |-> -1, len |-> 0]
    /\ UNCHANGED <<build, data, rd, wr, ghost>>

\* The call op(x) returned code, the writer w holds the tail in its sink and
\* the decoder handed code ended as u.
CodeDecoded(op, x, code, w, u) ==
    /\ wr' = w
    /\ data' = w.sink
    /\ rd' = u.r
    /\ out' = [op |-> op, arg |-> x, val |-> u.val, err |-> Outcome(u),
               from |-> code, len |-> 8 * Len(w.sink)]
    /\ UNCHANGED <<build, ghost>>

CodeBlockSize ==
    /\ out.op = "new"
    /\ \E b \in CodedBlockSizes :
        Bind(getBlockSizeCode(b), LAMBDA c :
            IF c.err # "none" THEN CodeRefused("getBlockSizeCode", b, c.err)
            ELSE Bind(BitOutputStream_flush(
                          writeHeaderBlockSize(Ret(wr, 0, "none"),
                                               [NewFrameInfo EXCEPT !.blockSize = b],
                                               c.val, build.abi).r,
                          build.abi),
                      LAMBDA w :
                          CodeDecoded("getBlockSizeCode", b, c.val, w,
                                      decodeBlockSize(Ret(NewReader, NewFrameInfo, "none"),
                                                      w.sink, c.val, W))))

CodeSampleRate ==
    /\ out.op = "new"
    /\ \E r \in CodedSampleRates :
        Bind(getSampleRateCode(r), LAMBDA c :
            IF c.err # "none" THEN CodeRefused("getSampleRateCode", r, c.err)
            ELSE Bind(BitOutputStream_flush(
                          writeHeaderSampleRate(Ret(wr, 0, "none"),
                                                [NewFrameInfo EXCEPT !.sampleRate = r],
                                                c.val, build.abi).r,
                          build.abi),
                      LAMBDA w :
                          CodeDecoded("getSampleRateCode", r, c.val, w,
                                      decodeSampleRate(Ret(NewReader, NewFrameInfo, "none"),
                                                       w.sink, c.val, W))))

CodeSampleDepth ==
    /\ out.op = "new"
    /\ \E d \in CodedSampleDepths :
        Bind(getSampleDepthCode(d), LAMBDA c :
            IF c.err # "none" THEN CodeRefused("getSampleDepthCode", d, c.err)
            ELSE CodeDecoded("getSampleDepthCode", d, c.val, wr,
                             decodeSampleDepth(Ret(NewReader, NewFrameInfo, "none"),
                                               c.val)))

NextCodes == CodeBlockSize \/ CodeSampleRate \/ CodeSampleDepth

InitCodes == InitCodec(UtilitiesBuilds)

SpecCodes == InitCodes /\ [][NextCodes]_vars

---------------------------------------------------------------------------
(* The tables of the fast Rice decoder, entry by entry.                    *)

\* The indexes looked up: the low ones, one in every run of 64 and the ends.
TableIndexes ==
    (0..127) \cup {64 * i + 37 : i \in 0..127}
        \cup {Pow2(RICE_DECODING_TABLE_BITS - 1), RICE_DECODING_TABLE_MASK}

\* consumeTable[idx] and valueTable[idx] of the tables of param.
LookUpTables ==
    /\ out.op = "new"
    /\ \E param \in 0..(RICE_DECODING_TABLE_LEN - 1), idx \in TableIndexes, junk \in Junk :
        /\ out' = [op |-> "riceTables", arg |-> <<param, idx>>,
                   val |-> <<riceConsumed(param, idx, junk), riceValue(param, idx, junk)>>,
                   err |-> "none", from |-> 0, len |-> 0]
        /\ UNCHANGED <<build, data, rd, wr, ghost>>

NextRiceTables == LookUpTables

InitRiceTables == InitCodec(Builds)

SpecRiceTables == InitRiceTables /\ [][NextRiceTables]_vars

---------------------------------------------------------------------------
(* StreamInfo::getMd5Hash.  The digest is a function of the bytes handed   *)
(* to MD5_Update, in order: the model keeps those bytes (ctx) and the      *)
(* length of every chunk handed over (chunks) in place of the MD5 state.   *)
(* The chunk of 2048 samples is scaled to Md5ChunkSamples.  The file       *)
(* builds where uint_fast64_t is unsigned long long, the type of 2048ULL.  *)

Md5ChunkSamples == 2

\* The most samples of a channel.
Md5MaxSamples == 5

\* (uint_fast8_t)((uint_fast32_t)val >> (k << 3)), most significant byte
\* first.
sampleByteBigEndian(val, k, w) == FromW(ResizeW(ShrW(Unsigned(val, w), 24 - 8 * k), 8))

\* (uint_fast8_t)((uint_fast32_t)val >> (k << 3))
sampleByte(val, k, w) == FromW(ResizeW(ShrW(Unsigned(val, w), 8 * k), 8))

\* MD5_CTX ctx; MD5_Init(&ctx); buf = new uint_fast8_t[bufSize]; l = 0
NewMd5(bufSize) ==
    [buf |-> [p \in 0..(bufSize - 1) |-> 0], l |-> 0, ctx |-> <<>>, chunks |-> <<>>,
     ub |-> FALSE]

\* for (k = 0; k < numBytes; k++, l++) buf[l] = ...: a store at or beyond
\* bufSize is outside the array.
RECURSIVE md5Store(_, _, _, _, _, _)
md5Store(st, val, k, numBytes, bufSize, w) ==
    IF k >= numBytes THEN st
    ELSE IF st.l >= bufSize THEN [st EXCEPT !.ub = TRUE]
    ELSE md5Store([st EXCEPT !.buf[st.l] = sampleByte(val, k, w), !.l = @ + 1],
                  val, k + 1, numBytes, bufSize, w)

\* for (j = 0; j < chans; j++) { val = samples[j][i]; ... }
RECURSIVE md5Channels(_, _, _, _, _, _, _, _)
md5Channels(st, samples, i, j, chans, numBytes, bufSize, w) ==
    IF j >= chans \/ st.ub THEN st
    ELSE md5Channels(md5Store(st, samples[j][i], 0, numBytes, bufSize, w),
                     samples, i, j + 1, chans, numBytes, bufSize, w)

\* MD5_Update(&ctx, buf, l); l = 0;
MD5_Update(st) ==
    [st EXCEPT !.ctx = @ \o [p \in 1..st.l |-> st.buf[p - 1]],
               !.chunks = Append(@, st.l),
               !.l = 0]

\* if (l == bufSize || i == numSamples - 1) { MD5_Update; l = 0; }
md5Flush(st, i, numSamples, bufSize) ==
    IF st.ub THEN st
    ELSE IF st.l = bufSize \/ i = numSamples - 1 THEN MD5_Update(st)
    ELSE st

\* for (i = 0, l = 0; i < numSamples; i++) { ... }
RECURSIVE md5Samples(_, _, _, _, _, _, _, _)
md5Samples(st, samples, i, chans, numSamples, numBytes, bufSize, w) ==
    IF i >= numSamples \/ st.ub THEN st
    ELSE md5Samples(md5Flush(md5Channels(st, samples, i, 0, chans, numBytes, bufSize, w),
                             i, numSamples, bufSize),
                    samples, i + 1, chans, numSamples, numBytes, bufSize, w)

\* getMd5Hash(samples, chans, numSamples, depth) on arrays that are not
\* null; the value is the state of the digest MD5_Final closes.
getMd5Hash(samples, chans, numSamples, depth, w) ==
    IF depth > 32 \/ depth % 8 # 0 THEN Ret(NewMd5(0), 0, "InvalidArgument")
    ELSE Bind(chans * (depth \div 8) * Min(numSamples, Md5ChunkSamples),
              LAMBDA bufSize :
                  Bind(md5Samples(NewMd5(bufSize), samples, 0, chans, numSamples,
                                  depth \div 8, bufSize, w),
                       LAMBDA st : Ret(st, 0, IF st.ub THEN "UB" ELSE "none")))

Md5Chans == 0..2

Md5Depths == {0, 8, 12, 16, 24, 32, 33, 40}

\* Sample arrays of two channels: small, large of either sign, and next to
\* the ends of the range of an int.
Md5SampleArrays ==
    { [j \in 0..1 |-> [i \in 0..(Md5MaxSamples - 1) |-> (2 * i + j + 1) * 66051]],
      [j \in 0..1 |-> [i \in 0..(Md5MaxSamples - 1) |-> (j - 1) * 305419896 - i]],
      [j \in 0..1 |-> [i \in 0..(Md5MaxSamples - 1) |->
                          IF (i + j) % 2 = 0 THEN 2147483647 - i ELSE i - 2147483647]] }

GetMd5Hash ==
    /\ out.op = "new"
    /\ \E samples \in Md5SampleArrays, chans \in Md5Chans,
          numSamples \in 0..Md5MaxSamples, depth \in Md5Depths :
           Bind(getMd5Hash(samples, chans, numSamples, depth, W),
                LAMBDA u :
                    out' = [op |-> "getMd5Hash",
                            arg |-> [samples |-> samples, chans |-> chans,
                                     numSamples |-> numSamples, depth |-> depth],
                            val |-> u.r, err |-> u.err, from |-> 0, len |-> 0])
    /\ UNCHANGED <<build, data, rd, wr, ghost>>

NextMd5 == GetMd5Hash

InitMd5 == InitCodec(UtilitiesBuilds)

SpecMd5 == InitMd5 /\ [][NextMd5]_vars

---------------------------------------------------------------------------
(* numberOfLeadingZeros on its own: the words with one bit set, the runs   *)
(* of low bits, and the complements of the head bytes readUtf8Integer      *)
(* hands in.                                                               *)

LeadingZeroWords64 ==
    {MaskW(k, 64) : k \in 0..64} \cup {ShlW(ToW(1, 64), k) : k \in 0..63}

LeadingZeroWords32 ==
    {MaskW(k, 32) : k \in 0..32} \cup {ShlW(ToW(1, 32), k) : k \in 0..31}
        \cup {NotW(ShlW(ToW(head, 32), 24)) : head \in 0..255}

\* The call op(x) of a function of Utilities.h that returned val.
Counted(op, x, val) ==
    /\ out' = [op |-> op, arg |-> x, val |-> val, err |-> "none", from |-> 0, len |-> 0]
    /\ UNCHANGED <<build, data, rd, wr, ghost>>

Count64 ==
    /\ out.op = "new"
    /\ \E x \in LeadingZeroWords64 :
           Counted("numberOfLeadingZeros64", x, numberOfLeadingZeros64(x))

Count32 ==
    /\ out.op = "new"
    /\ \E x \in LeadingZeroWords32 :
           Counted("numberOfLeadingZeros32", x, numberOfLeadingZeros32(x))

NextLeadingZeros == Count64 \/ Count32

InitLeadingZeros == InitCodec(UtilitiesBuilds)

SpecLeadingZeros == InitLeadingZeros /\ [][NextLeadingZeros]_vars

---------------------------------------------------------------------------
(* Reference functions of the format, computed from the stream alone: the  *)
(* bits of a byte sequence, the number and the word a run of bits spells,  *)
(* the CRC as the remainder of a polynomial division, and Rice decoding    *)
(* bit by bit.                                                             *)

StreamBits(d) ==
    [i \in 1..(8 * Len(d)) |-> (d[((i - 1) \div 8) + 1] \div Pow2(7 - ((i - 1) % 8))) % 2]

\* Bits from + 1 .. from + n of the stream.
NextBits(d, from, n) == SubSeq(StreamBits(d), from + 1, from + n)

\* The number spelt by bits, first bit most significant (fewer than 32 bits).
RECURSIVE BitsValue(_)
BitsValue(bits) ==
    IF Len(bits) = 0 THEN 0
    ELSE 2 * BitsValue(SubSeq(bits, 1, Len(bits) - 1)) + bits[Len(bits)]

\* bits right-aligned in w bits, zeros above.
PadBits(bits, w) == [j \in 1..w |-> IF j <= w - Len(bits) THEN 0 ELSE bits[j - (w - Len(bits))]]

\* The word of w bits that holds the number spelt by bits.
BitsWord(bits, w) ==
    [i \in 1..(w \div 8) |-> BitsValue(SubSeq(PadBits(bits, w), 8 * (i - 1) + 1, 8 * i))]

\* The CRC of a byte sequence: the remainder of the division of its bits,
\* followed by width zero bits, by the polynomial poly of degree width.
\* PolyByte shifts the bits j - 1 .. 0 of a byte into the remainder reg (the
\* polynomial is subtracted when a 1 bit leaves the remainder), PolyRem the
\* bytes i .. Len(bytes) and the zero bits.
RECURSIVE PolyByte(_, _, _, _, _)
PolyByte(reg, byte, j, poly, width) ==
    IF j = 0 THEN reg
    ELSE IF reg >= Pow2(width - 1)
    THEN PolyByte(BitXor(2 * reg + ((byte \div Pow2(j - 1)) % 2), poly),
                  byte, j - 1, poly, width)
    ELSE PolyByte(2 * reg + ((byte \div Pow2(j - 1)) % 2), byte, j - 1, poly, width)

RECURSIVE PolyRem(_, _, _, _, _)
PolyRem(reg, bytes, i, poly, width) ==
    IF i > Len(bytes) + (width \div 8) THEN reg
    ELSE PolyRem(PolyByte(reg, IF i <= Len(bytes) THEN bytes[i] ELSE 0, 8, poly, width),
                 bytes, i + 1, poly, width)

RefCrc8(bytes) == PolyRem(0, bytes, 1, 263, 8)
RefCrc16(bytes) == PolyRem(0, bytes, 1, 98309, 16)

\* The zero bits from position pos up to the first 1 bit; -1 when no 1 bit
\* is left.
RECURSIVE RefUnary(_, _, _)
RefUnary(bits, pos, q) ==
    IF pos >= Len(bits) THEN -1
    ELSE IF bits[pos + 1] = 1 THEN q
    ELSE RefUnary(bits, pos + 1, q + 1)

\* Rice decoding of the symbols start .. end - 1 from position pos: val is
\* the result array, used the position reached.
RECURSIVE RefRice(_, _, _, _, _, _)
RefRiceSymbol(bits, pos, k, res, start, end, q) ==
    IF q = -1 \/ pos + q + 1 + k > Len(bits)
    THEN [val |-> res, used |-> pos, err |-> "EndOfStream"]
    ELSE IF q >= Pow2(RESIDUAL_BITS - k)
    THEN [val |-> res, used |-> pos, err |-> "ResidualTooLarge"]
    ELSE RefRice(bits, pos + q + 1 + k, k,
                 [res EXCEPT ![start] =
                      zigzag(q * Pow2(k) + BitsValue(SubSeq(bits, pos + q + 2, pos + q + 1 + k)))],
                 start + 1, end)

RefRice(bits, pos, k, res, start, end) ==
    IF start >= end THEN [val |-> res, used |-> pos, err |-> "none"]
    ELSE RefRiceSymbol(bits, pos, k, res, start, end, RefUnary(bits, pos, 0))

---------------------------------------------------------------------------
(* Claims about the reader *)

\* C1: at a byte boundary reached by reads since the last resetCrcs (or since
\* construction), getCrc8() returns the CRC-8 and getCrc16() the CRC-16 of the
\* source bytes from the start of the span up to that boundary.
C1_ReaderCrcSpan ==
    (ghost.clean /\ rd.taken % 8 = 0) =>
        /\ out.op = "getCrc8" =>
               /\ out.err = "none"
               /\ out.val = RefCrc8(SubSeq(data, ghost.spanStart + 1, rd.taken \div 8))
        /\ out.op = "getCrc16" =>
               /\ out.err = "none"
               /\ out.val = RefCrc16(SubSeq(data, ghost.spanStart + 1, rd.taken \div 8))

\* C2: after reads that all succeeded and took n bits in total,
\* getPosition() * 8 + getBitPosition() = n, with getBitPosition() in 0..7.
C2_PositionLaw ==
    ghost.clean =>
        /\ getPosition(rd) * 8 + getBitPosition(rd) = rd.taken
        /\ getBitPosition(rd) \in 0..7

\* C3: readUint(n) called with at least n bits unread returns the next n bits
\* of the stream as a number below 2^n, first bit most significant, and
\* advances the position by n bits.
C3_ReadUintExact ==
    (out.op = "readUint" /\ out.from + out.arg <= 8 * Len(data)) =>
        /\ out.err = "none"
        /\ out.val = BitsWord(NextBits(data, out.from, out.arg), W)
        /\ rd.taken = out.from + out.arg

\* C4: readRiceSignedInts(k, result, start, end) stores the values, into the
\* entries start .. end - 1 only, and takes the bits, of the bit-by-bit
\* decoder, whenever that decoder finds end - start symbols in the stream.
C4_AgreesWith(ref) ==
    ref.err = "none" =>
        /\ out.err = "none"
        /\ out.val = ref.val
        /\ rd.taken = ref.used

C4_RiceEquivalence ==
    out.op = "readRiceSignedInts" =>
        C4_AgreesWith(RefRice(StreamBits(data), out.from, out.arg[1], FreshResult,
                              out.arg[2], out.arg[3]))

\* C5: every value readRiceSignedInts stores fits a signed integer of
\* RESIDUAL_BITS bits, and the assertion on the unsigned value never fails.
C5_RiceResidualBound ==
    out.op = "readRiceSignedInts" =>
        /\ out.err # "Abort"
        /\ \A i \in DOMAIN out.val :
               out.val[i] # FreshResult[i] =>
                   /\ -Pow2(RESIDUAL_BITS - 1) <= out.val[i]
                   /\ out.val[i] < Pow2(RESIDUAL_BITS - 1)

---------------------------------------------------------------------------
(* Frame headers from the stream: a client calls readFrame on a stream of  *)
(* two headers, goes on after a frame it was given, and stops at the first *)
(* failure.  The first header is drawn field by field, with at most one    *)
(* field that the format excludes; the second is a fixed header of the     *)
(* format.  ghost.item is the first header.                                *)

HeaderSyncs == {16382, 16383}
HeaderCodes ==
    [blockStrategy : {0, 1}, blockSizeCode : {0, 1, 7}, sampleRateCode : {0, 12, 13, 15},
     chanAsgn : {7, 10, 11}, depthCode : {0, 3, 4, 7}]

\* UTF-8 coded positions: 0; 128; 2^31; a head byte with one leading 1 bit;
\* a head byte with eight; a continuation byte that starts with 00.
HeaderPositions ==
    { [bytes |-> <<0>>, malformed |-> FALSE, fits31 |-> TRUE],
      [bytes |-> <<194, 128>>, malformed |-> FALSE, fits31 |-> TRUE],
      [bytes |-> <<254, 130, 128, 128, 128, 128, 128>>, malformed |-> FALSE, fits31 |-> FALSE],
      [bytes |-> <<128>>, malformed |-> TRUE, fits31 |-> TRUE],
      [bytes |-> <<255>>, malformed |-> TRUE, fits31 |-> TRUE],
      [bytes |-> <<194, 0>>, malformed |-> TRUE, fits31 |-> TRUE] }

\* The byte of an 8-bit sample rate and the low byte of a 16-bit one, the
\* number added to the CRC-8 byte.
HeaderRateBytes == {0, 200}
HeaderCrcErrors == {0, 1}

\* The rules of the format a header breaks.
HeaderFaults(h) ==
    (IF h.sync # 16382 THEN {"sync"} ELSE {})
    \cup (IF h.reserved1 = 1 THEN {"reserved1"} ELSE {})
    \cup (IF h.reserved2 = 1 THEN {"reserved2"} ELSE {})
    \cup (IF h.codes.chanAsgn \in 11..15 THEN {"channels"} ELSE {})
    \cup (IF h.codes.depthCode \in {3, 7} THEN {"depth"} ELSE {})
    \cup (IF h.position.malformed THEN {"utf8"} ELSE {})
    \cup (IF h.codes.blockStrategy = 0 /\ ~h.position.fits31 THEN {"frameIndex"} ELSE {})
    \cup (IF h.codes.blockSizeCode = 0 THEN {"blockSize"} ELSE {})
    \cup (IF h.codes.sampleRateCode = 15 THEN {"sampleRate"} ELSE {})
    \cup (IF h.crcError # 0 THEN {"crc8"} ELSE {})

Headers ==
    {h \in [sync : HeaderSyncs, reserved1 : {0, 1}, reserved2 : {0, 1},
            codes : HeaderCodes, position : HeaderPositions,
            rateByte : HeaderRateBytes, crcError : HeaderCrcErrors] :
        Cardinality(HeaderFaults(h)) <= 1}

\* The bytes of a header up to its CRC-8: the block size of code 7 is 65536
\* and the sample rate of code 12 is rateByte, that of code 13 rateByte too.
HeaderBody(h) ==
    << (h.sync * 4 + h.reserved1 * 2 + h.codes.blockStrategy) \div 256,
       (h.sync * 4 + h.reserved1 * 2 + h.codes.blockStrategy) % 256,
       h.codes.blockSizeCode * 16 + h.codes.sampleRateCode,
       h.codes.chanAsgn * 16 + h.codes.depthCode * 2 + h.reserved2 >>
    \o h.position.bytes
    \o (IF h.codes.blockSizeCode = 7 THEN <<255, 255>> ELSE <<>>)
    \o (IF h.codes.sampleRateCode = 12 THEN <<h.rateByte>>
        ELSE IF h.codes.sampleRateCode = 13 THEN <<0, h.rateByte>>
        ELSE <<>>)

HeaderBytes(h) ==
    Append(HeaderBody(h), (RefCrc8(HeaderBody(h)) + h.crcError) % 256)

SecondHeader ==
    [sync |-> 16382, reserved1 |-> 0, reserved2 |-> 0,
     codes |-> [blockStrategy |-> 1, blockSizeCode |-> 1, sampleRateCode |-> 12,
                chanAsgn |-> 10, depthCode |-> 4],
     position |-> [bytes |-> <<194, 128>>, malformed |-> FALSE, fits31 |-> TRUE],
     rateByte |-> 200, crcError |-> 0]

InitHeader ==
    /\ build \in UtilitiesBuilds
    /\ \E h \in Headers :
           /\ data = HeaderBytes(h) \o HeaderBytes(SecondHeader)
           /\ ghost = [spanStart |-> 0, clean |-> TRUE, item |-> h, wcrc |-> -1]
    /\ rd = NewReader
    /\ wr = NewWriter
    /\ out = [op |-> "new", arg |-> "start", val |-> 0, err |-> "none", from |-> 0, len |-> 0]

\* The call readFrame(in) that ended as u: val is what it returned, and arg
\* tells a call made at the end of the stream from one made before it.
ReadFrameAs(u) ==
    /\ rd' = u.r
    /\ out' = [op |-> "readFrame",
               arg |-> IF rd.taken = 8 * Len(data) THEN "end" ELSE "header",
               val |-> IF Outcome(u) = "none" THEN u.val ELSE "nothing",
               err |-> Outcome(u), from |-> rd.taken, len |-> rd.bitBufferLen]
    /\ UNCHANGED <<build, data, wr, ghost>>

ReadNextFrame ==
    /\ out.err = "none"
    /\ out.arg # "end"
    /\ ReadFrameAs(readFrame(rd, data, build))

NextHeader == ReadNextFrame

SpecHeader == InitHeader /\ [][NextHeader]_vars

---------------------------------------------------------------------------
(* Claims about the codecs *)

\* C6: writeHeader of a frame with frameIndex -1 succeeds, and readFrame on
\* the bytes it wrote succeeds (the CRC-8 written passes the check) and
\* returns the frame written.
C6_FrameHeaderRoundTrip ==
    /\ out.op = "writeHeader" => out.err = "none"
    /\ out.op = "readFrame" => (out.err = "none" /\ out.val = ghost.item)

\* C7: writeUtf8Integer(v) writes 1 to 7 whole bytes when v is below
\* 2^UTF8_BITS, and readUtf8Integer on them returns v and takes them all;
\* writeUtf8Integer throws InvalidArgument for the other v.
C7_Utf8RoundTrip ==
    /\ out.op = "writeUtf8Integer" =>
           IF IsZeroW(ShrW(out.arg, UTF8_BITS))
           THEN /\ out.err = "none"
                /\ wr.bitBufferLen % 8 = 0
                /\ getByteCount(wr) \in 1..7
           ELSE out.err = "InvalidArgument" /\ getByteCount(wr) = 0
    /\ out.op = "readUtf8Integer" =>
           /\ out.err = "none"
           /\ out.val = ghost.item
           /\ rd.taken = 8 * Len(data)

\* C10: after the same bytes, written to a BitOutputStream and read by a
\* reader, getCrc8() of the writer and getCrc8() of the reader return the
\* same value, the CRC-8 of the bytes.
C10_Crc8Agreement ==
    /\ out.op = "BitOutputStream_getCrc8" =>
           (out.err = "none" /\ out.val = RefCrc8(ghost.item))
    /\ (out.op = "getCrc8" /\ ghost.clean) =>
           /\ out.err = "none"
           /\ out.val = ghost.wcrc
           /\ out.val = RefCrc8(data)

\* The ranges the data model gives the fields of a StreamInfo.
InDataModel(S) ==
    /\ S.minBlockSize \in 16..65535
    /\ S.maxBlockSize \in S.minBlockSize..65535
    /\ S.minFrameSize \in 0..16777215
    /\ S.maxFrameSize \in 0..16777215
    /\ (S.minFrameSize # 0 /\ S.maxFrameSize # 0) => S.maxFrameSize >= S.minFrameSize
    /\ S.sampleRate \in 1..655350
    /\ S.numChannels \in 1..8
    /\ S.sampleDepth \in 4..32
    /\ IsZeroW(ShrW(S.numSamples, 36))
    /\ Len(S.md5Hash) = 16

\* C8: write(isLast) of a StreamInfo within the ranges of the data model
\* emits 38 bytes, the block header (isLast, type 0, length 34) and the
\* payload of 34 bytes, and parsing the payload gives back a StreamInfo equal
\* in every field, numSamples being (first half read << 18) | second half.
C8_StreamInfoRoundTrip ==
    /\ (out.op = "StreamInfo_write" /\ InDataModel(out.arg[1])) =>
           /\ out.err = "none"
           /\ Len(Closed.sink) = 38
           /\ SubSeq(Closed.sink, 1, 4) = <<IF out.arg[2] THEN 128 ELSE 0, 0, 0, 34>>
    /\ (out.op = "StreamInfo_parse" /\ InDataModel(ghost.item)) =>
           /\ out.err = "none"
           /\ out.val = ghost.item

\* The block of a seek table as the format lays it out: the header and then,
\* point by point, the offsets and the frame samples most significant byte
\* first.
RefSeekPoint(p) ==
    p.sampleOffset \o p.fileOffset \o <<p.frameSamples \div 256, p.frameSamples % 256>>

RECURSIVE RefSeekPoints(_)
RefSeekPoints(ps) ==
    IF ps = <<>> THEN <<>> ELSE RefSeekPoint(Head(ps)) \o RefSeekPoints(Tail(ps))

RefSeekBlock(ps, last) ==
    <<(IF last THEN 128 ELSE 0) + 3,
      (18 * Len(ps)) \div 65536, ((18 * Len(ps)) \div 256) % 256, (18 * Len(ps)) % 256>>
        \o RefSeekPoints(ps)

\* C9: write(isLast) of a SeekTable that passes checkValues and has at most
\* floor((2^24 - 1) / 18) points emits 4 + 18 * count bytes, the header
\* (isLast, type 3, length 18 * count) and every point big-endian, and parsing
\* the payload gives the same points in the same order, placeholders
\* included; with more points write fails and emits nothing.
C9_SeekTableRoundTrip ==
    /\ (out.op = "SeekTable_write" /\ pointsSize(out.arg[1]) > (Pow2(24) - 1) \div 18) =>
           /\ out.err # "none"
           /\ Closed.sink = <<>> /\ getByteCount(wr) = 0
    /\ (out.op = "SeekTable_write" /\ pointsSize(out.arg[1]) <= (Pow2(24) - 1) \div 18
            /\ SeekTable_checkValues(out.arg[1]) = "none") =>
           /\ out.err = "none"
           /\ Len(Closed.sink) = 4 + 18 * pointsSize(out.arg[1])
           /\ Closed.sink = RefSeekBlock(Points(out.arg[1]), out.arg[2])
    /\ out.op = "SeekTable_parse" =>
           /\ out.err = "none"
           /\ out.val.points = Points(ghost.item)
           /\ out.val.more = 0

\* A table of two points, the second a placeholder, written and parsed.
C9_Witness ==
    /\ out.op = "SeekTable_parse"
    /\ out.err = "none"
    /\ Len(out.val.points) = 2
    /\ out.val.points[1].sampleOffset = <<1, 2, 3, 4, 5, 6, 7, 8>>
    /\ out.val.points[2].sampleOffset = MinusOneW(64)

\* The bits a writer holds: the bytes put to the sink, then the low
\* bitBufferLen bits of bitBuffer.
WriterBits(w) ==
    StreamBits(w.sink) \o SubSeq(StreamBits(w.bitBuffer), 64 - w.bitBufferLen + 1, 64)

\* C11: after any sequence of writeInt, flush, alignToByte, resetCrcs and
\* getCrc calls the bytes of the sink followed by the low bitBufferLen bits
\* of bitBuffer are the low n bits of every val in call order; bitBufferLen
\* is within 0..64, flush leaves at most 7 bits, 8 * byteCount +
\* bitBufferLen is the number of bits written and getByteCount() is that
\* number divided by 8, rounded down.
C11_WriterBitSequence ==
    /\ WriterBits(wr) = ghost.bits
    /\ wr.bitBufferLen \in 0..64
    /\ out.op = "flush" => wr.bitBufferLen <= 7
    /\ 8 * wr.byteCount + wr.bitBufferLen = Len(ghost.bits)
    /\ getByteCount(wr) = Len(ghost.bits) \div 8

\* A write of 3 bits of a value with every bit set that found 64 bits
\* buffered and flushed them first.
C11_Witness ==
    /\ out.op = "writeInt"
    /\ out.arg = <<3, MinusOneW(32)>>
    /\ out.err = "none"
    /\ wr.byteCount = 8
    /\ wr.bitBufferLen = 3

\* The bytes a run of bits spells, eight bits to the byte.
BytesOf(bits) == [i \in 1..(Len(bits) \div 8) |-> BitsValue(SubSeq(bits, 8 * i - 7, 8 * i))]

\* C12: at a byte-aligned point getCrc16() of the writer is the CRC-16
\* (polynomial 0x18005, initial value 0) of the bytes written since the last
\* resetCrcs() called at a byte boundary, or since construction, however the
\* writeInt calls were split and whenever the flushes happened.
C12_WriterCrc16Span ==
    (out.op = "BitOutputStream_getCrc16" /\ ghost.clean /\ Len(ghost.bits) % 8 = 0) =>
        /\ out.err = "none"
        /\ out.val = RefCrc16(BytesOf(SubSeq(ghost.bits, ghost.spanStart + 1, Len(ghost.bits))))

\* A run of bits extended to w bits with copies of its first bit.
SignExtend(bits, w) ==
    [i \in 1..w |-> IF i <= w - Len(bits) THEN bits[1] ELSE bits[i - (w - Len(bits))]]

\* C13: readSignedInt(n), 1 <= n <= 32, consumes the n bits readUint(n)
\* would and returns their two's-complement value: v when bit n - 1 of v is
\* 0 and v - 2^n when it is 1.
C13_ReadSignedInt ==
    (out.op = "readSignedInt" /\ out.arg \in 1..32 /\ out.from + out.arg <= 8 * Len(data)) =>
        /\ out.err = "none"
        /\ out.val = BitsWord(SignExtend(NextBits(data, out.from, out.arg), W), W)
        /\ rd.taken = out.from + out.arg

\* C14: readUint(n) fails with EndOfStream exactly when fewer than n bits
\* remain and with InvalidArgument when n > 32; a failed readUint consumes
\* no bits, so that reads of fewer bits after it return the bits that were
\* unread before it, in order.
C14_ReadUintFailure ==
    out.op = "readUint" =>
        IF out.arg > 32
        THEN out.err = "InvalidArgument" /\ rd.taken = out.from
        ELSE IF out.from + out.arg > 8 * Len(data)
        THEN out.err = "EndOfStream" /\ rd.taken = out.from
        ELSE /\ out.err = "none"
             /\ rd.taken = out.from + out.arg
             /\ out.arg < 32 => out.val = BitsWord(NextBits(data, out.from, out.arg), W)

\* A read of 3 bits that succeeds after a read of 32 bits has failed at the
\* end of the stream with 24 bits unread.
C14_Witness ==
    /\ out.op = "readUint"
    /\ out.arg = 3
    /\ out.err = "none"
    /\ ~ghost.clean
    /\ Len(data) = 3
    /\ out.from = 0

\* The calls that need a byte boundary.
AlignedOps == {"readByte", "readFully", "resetCrcs", "getCrc8", "getCrc16"}

\* What readByte and readFully give at a byte boundary, from being the bits
\* handed out before the call.
C15_AtBoundary ==
    /\ (out.op = "readByte" /\ out.len % 8 = 0) =>
           /\ out.err = "none"
           /\ IF out.from + 8 <= 8 * Len(data)
              THEN /\ out.val = data[(out.from \div 8) + 1]
                   /\ out.val \in 0..255
                   /\ rd.taken = out.from + 8
                   /\ ghost.clean => getPosition(rd) = (out.from \div 8) + 1
              ELSE out.val = -1
    /\ (out.op = "readFully" /\ out.len % 8 = 0) =>
           IF out.from + 8 * out.arg <= 8 * Len(data)
           THEN /\ out.err = "none"
                /\ out.val = SubSeq(data, (out.from \div 8) + 1, (out.from \div 8) + out.arg)
           ELSE out.err = "EndOfStream"

\* A call that needs a byte boundary and is made inside a byte.
C15_InsideByte ==
    (out'.op \in AlignedOps /\ getBitPosition(rd) # 0) =>
        (out'.err = "NotAligned" /\ rd' = rd)

\* C15: readByte, readFully, resetCrcs, getCrc8 and getCrc16 called while
\* getBitPosition() # 0 fail with NotAligned and leave position, buffered
\* bits and CRC state as they were; at a byte boundary readByte returns the
\* next byte, in 0..255, and advances by one byte, or returns -1 when no
\* byte remains, and readFully(buf, len) fills buf with the next len bytes
\* in order or fails with EndOfStream.
C15_ReaderAlignment == [](C15_AtBoundary) /\ [][C15_InsideByte]_vars

\* readFully refused inside a byte, 3 bits into the stream.
C15_Witness ==
    /\ out.op = "readFully"
    /\ out.err = "NotAligned"
    /\ out.from = 3
    /\ getBitPosition(rd) = 3

\* C16: seekTo(pos), called in any open state, makes getPosition() = pos and
\* getBitPosition() = 0, discards all buffered bits, starts a fresh CRC span
\* (both CRCs as after resetCrcs), and the reads that follow return the bits
\* of the source from byte pos on; after a read has hit the end of the
\* stream, a seek to an earlier position makes reads succeed again.
C16_SeekTo ==
    /\ out.op = "seekTo" =>
           /\ out.err = "none"
           /\ getPosition(rd) = out.arg
           /\ getBitPosition(rd) = 0
           /\ rd.bitBufferLen = 0
           /\ IsZeroW(rd.bitBuffer)
           /\ rd.byteBufferIndex = rd.byteBufferLen
           /\ rd.crc8 = 0 /\ rd.crc16 = 0
           /\ resetCrcs(rd) = Ret(rd, 0, "none")
           /\ rd.taken = 8 * out.arg
    /\ (out.op = "readUint" /\ out.from + out.arg <= 8 * Len(data)) =>
           /\ out.err = "none"
           /\ out.val = BitsWord(NextBits(data, out.from, out.arg), W)
           /\ rd.taken = out.from + out.arg

\* A read of 13 bits from byte 1 that succeeds after an earlier read hit
\* the end of the stream: only a seek leads back there.
C16_Witness ==
    /\ out.op = "readUint" /\ out.arg = 13 /\ out.err = "none"
    /\ out.from = 8 /\ out.len = 0
    /\ ~ghost.clean

\* The fields close() sets, of a reader and of a writer.
ClosedReader(r) ==
    /\ r.data = "nullptr" /\ r.byteBuffer = "nullptr"
    /\ r.byteBufferLen = -1 /\ r.byteBufferIndex = -1
    /\ IsZeroW(r.bitBuffer) /\ r.bitBufferLen = 255
    /\ r.crc8 = -1 /\ r.crc16 = -1 /\ r.crcStartIndex = -1

ClosedWriter(w) == w.out = "nullptr" /\ w.bitBufferLen = 0

\* A close() of the reader, and one of the writer, made on an object closed
\* before or right after a call that failed.
C17_Close ==
    /\ (out'.op = "ByteArrayFlacInput_close" /\ (rd.data = "nullptr" \/ out.err # "none")) =>
           /\ out'.err = "none"
           /\ ClosedReader(rd')
           /\ rd'.offset = rd.offset
           /\ rd.data = "nullptr" => rd' = rd
    /\ (out'.op = "BitOutputStream_close" /\ (wr.out = "nullptr" \/ out.err # "none")) =>
           /\ out'.err = "none"
           /\ ClosedWriter(wr')
           /\ wr.out = "nullptr" => wr' = wr

\* C17: close() of a reader or of a writer, called a second or later time
\* or after an operation has failed (EndOfStream, InvalidData, NotAligned),
\* raises no error, does no further I/O on the source or sink, and leaves
\* the object in the closed state a single close() leaves.
C17_CloseIdempotent == [][C17_Close]_vars

\* C18: readRiceSignedInts fails with InvalidArgument, before it reads any
\* bit, when param < 0 or param > 31; for every param in 0..31 the table it
\* takes is one of the tables built, and when it returns it has stored the
\* symbols asked for.
C18_RiceParamRange ==
    out.op = "readRiceSignedInts" =>
        IF out.arg[1] < 0 \/ out.arg[1] > 31
        THEN /\ out.err = "InvalidArgument"
             /\ rd.taken = out.from
             /\ rd.bitBufferLen = out.len
             /\ out.val = FreshResult
        ELSE /\ out.err # "UB"
             /\ out.err = "none" =>
                    \A i \in out.arg[2]..(out.arg[3] - 1) : out.val[i] # FreshResult[i]

\* C19: readFrame fails with InvalidData and returns no FrameInfo whenever
\* the first 14 bits are not 0x3FFE, a reserved bit is 1, the channel
\* assignment is in 11..15, the sample depth code is 3 or 7, the UTF-8
\* position is malformed, blockStrategy is 0 and the position does not fit
\* 31 bits, the block size code is 0, the sample rate code is 15, or the
\* byte after the header is not the CRC-8 of the header bytes.
C19_ReadFrameRejects ==
    (out.op = "readFrame" /\ out.from = 0 /\ HeaderFaults(ghost.item) # {}) =>
        /\ out.err = "DataFormat"
        /\ out.val = "nothing"

\* The header a call of readFrame has read.
HeaderRead == IF out.from = 0 THEN ghost.item ELSE SecondHeader

\* C20: a FrameInfo that readFrame returns has exactly one of frameIndex
\* and sampleOffset equal to -1, frameIndex in [0, 2^31) when blockStrategy
\* was 0 and sampleOffset in [0, 2^36) when it was 1; numChannels is
\* channelAssignment + 1 for the assignments 0..7 and 2 for 8..10;
\* blockSize is in [1, 65536]; sampleRate is -1 or in [1, 655350];
\* sampleDepth is -1 or one of 8, 12, 16, 20, 24; frameSize is -1.
C20_ReadFrameResult ==
    (out.op = "readFrame" /\ out.arg = "header" /\ out.err = "none") =>
        /\ (out.val.frameIndex = -1) # (out.val.sampleOffset = MinusOneW(64))
        /\ IF HeaderRead.codes.blockStrategy = 0
           THEN /\ out.val.frameIndex \in 0..2147483647
                /\ out.val.sampleOffset = MinusOneW(64)
           ELSE /\ out.val.frameIndex = -1
                /\ IsZeroW(ShrW(out.val.sampleOffset, 36))
        /\ out.val.channelAssignment \in 0..10
        /\ out.val.numChannels =
               IF out.val.channelAssignment <= 7 THEN out.val.channelAssignment + 1 ELSE 2
        /\ out.val.blockSize \in 1..65536
        /\ out.val.sampleRate = -1 \/ out.val.sampleRate \in 1..655350
        /\ out.val.sampleDepth \in {-1, 8, 12, 16, 20, 24}
        /\ out.val.frameSize = -1

OnePosition(F) == (F.frameIndex = -1) # (F.sampleOffset = MinusOneW(64))

\* C22: writeHeader of a FrameInfo in which exactly one of frameIndex and
\* sampleOffset is not -1 completes, having written whole bytes that begin
\* with the sync code 0x3FFE, a 0 bit and the block strategy bit 1 and end
\* with the CRC-8 of the bytes before it, the writer at a byte boundary; with
\* both or neither set it fails with the runtime error of an invalid state.
C22_WriteHeaderPosition ==
    out.op = "writeHeader" =>
        IF OnePosition(out.arg)
        THEN /\ out.err = "none"
             /\ wr.bitBufferLen % 8 = 0
             /\ Len(Closed.sink) >= 6
             /\ SubSeq(Closed.sink, 1, 2) = <<255, 249>>
             /\ Closed.sink[Len(Closed.sink)] =
                    RefCrc8(SubSeq(Closed.sink, 1, Len(Closed.sink) - 1))
        ELSE out.err = "Runtime"

\* The frames the cross-invariant of a stream info lets through.
Consistent(S, F) ==
    /\ F.numChannels = S.numChannels
    /\ F.sampleRate = -1 \/ F.sampleRate = S.sampleRate
    /\ F.sampleDepth = -1 \/ F.sampleDepth = S.sampleDepth
    /\ F.blockSize <= S.maxBlockSize
    /\ IsZeroW(S.numSamples) \/ ~LtW(S.numSamples, ToW(F.blockSize, 64))
    /\ S.minFrameSize = 0 \/ F.frameSize >= S.minFrameSize
    /\ S.maxFrameSize = 0 \/ F.frameSize <= S.maxFrameSize

\* C23: checkFrame returns silently if and only if the frame has the
\* number of channels of the stream info, its sample rate or -1, its sample
\* depth or -1, a block size up to maxBlockSize and, when numSamples is not
\* 0, up to numSamples, and a frame size, -1 included, that is at least
\* minFrameSize unless that is 0 and at most maxFrameSize unless that is 0;
\* otherwise it fails with InvalidData.  It changes neither object.
C23_CheckFrame ==
    out.op = "checkFrame" =>
        /\ out.err = (IF Consistent(ghost.item, out.arg) THEN "none" ELSE "DataFormat")
        /\ out.val = <<ghost.item, out.arg>>

\* The ranges of the fields of a stream info that the format gives them.
InRanges(S) ==
    /\ 16 <= S.minBlockSize /\ S.minBlockSize <= S.maxBlockSize /\ S.maxBlockSize < 65536
    /\ S.minFrameSize < 16777216 /\ S.maxFrameSize < 16777216
    /\ (S.minFrameSize # 0 /\ S.maxFrameSize # 0) => S.maxFrameSize >= S.minFrameSize
    /\ 1 <= S.sampleRate /\ S.sampleRate <= 655350
    /\ 1 <= S.numChannels /\ S.numChannels <= 8
    /\ 4 <= S.sampleDepth /\ S.sampleDepth <= 32
    /\ LtW(S.numSamples, ShlW(ToW(1, 64), 36))

\* The fields of a stream info fit the bits the block gives them, the two
\* written less 1 included, and the sample rate is not 0.
InWidths(S) ==
    /\ S.minBlockSize < 65536 /\ S.maxBlockSize < 65536
    /\ S.minFrameSize < 16777216 /\ S.maxFrameSize < 16777216
    /\ 1 <= S.sampleRate /\ S.sampleRate < 1048576
    /\ 1 <= S.numChannels /\ S.numChannels <= 8
    /\ 4 <= S.sampleDepth /\ S.sampleDepth <= 32
    /\ LtW(S.numSamples, ShlW(ToW(1, 64), 36))

Refused(f) ==
    \/ f.minBlockSize < 16
    \/ f.maxBlockSize < f.minBlockSize
    \/ f.minFrameSize # 0 /\ f.maxFrameSize # 0 /\ f.maxFrameSize < f.minFrameSize
    \/ f.sampleRate = 0
    \/ f.sampleRate > 655350

IsPlaceholder(p) == p.sampleOffset = MinusOneW(64)

\* The lists of points in the order of the format.
Ordered(ps) ==
    \A i \in 1..Len(ps) : \A j \in (i + 1)..Len(ps) :
        /\ IsPlaceholder(ps[i]) => IsPlaceholder(ps[j])
        /\ (~IsPlaceholder(ps[i]) /\ ~IsPlaceholder(ps[j])) =>
               /\ LtW(ps[i].sampleOffset, ps[j].sampleOffset)
               /\ ~LtW(ps[j].fileOffset, ps[i].fileOffset)

\* C26: SeekTable.checkValues accepts a list of points if and only if every
\* placeholder comes after every point that is none and, among these,
\* sampleOffset is strictly increasing and fileOffset non-decreasing in list
\* order; the empty list and a list of placeholders only are accepted; the
\* list is not changed.
C26_SeekTableOrder ==
    out.op = "SeekTable_checkValues" =>
        /\ out.err = (IF Ordered(ghost.item) THEN "none" ELSE "Runtime")
        /\ out.val = out.arg
        /\ Points(out.val) = ghost.item

C26_Witness ==
    /\ out.op = "SeekTable_checkValues"
    /\ out.err = "none"
    /\ Len(ghost.item) = 4
    /\ ~IsPlaceholder(ghost.item[2])
    /\ IsPlaceholder(ghost.item[3])
    /\ ghost.item[1].fileOffset = ghost.item[2].fileOffset

\* n bits 0.
Zeros(n) == [i \in 1..n |-> 0]

\* C27: alignToByte() appends exactly (-t mod 8) bits 0, t being the number
\* of bits written so far, and leaves the writer at a byte boundary; at a
\* byte boundary it appends nothing; the bits written before are unchanged
\* and in their order.
C27_AlignToByte ==
    [][(out'.op = "alignToByte" /\ ghost'.calls = ghost.calls + 1) =>
           /\ out'.err = "none"
           /\ WriterBits(wr') = WriterBits(wr) \o Zeros((7 * Len(WriterBits(wr))) % 8)
           /\ Len(WriterBits(wr')) % 8 = 0
           /\ Len(WriterBits(wr)) % 8 = 0 => WriterBits(wr') = WriterBits(wr)]_vars

\* alignToByte after 3 bits 1 and, before them, 32 bits: 5 bits 0 follow.
C27_Witness ==
    /\ out.op = "alignToByte"
    /\ out.err = "none"
    /\ Len(WriterBits(wr)) = 40
    /\ SubSeq(WriterBits(wr), 33, 40) = <<1, 1, 1, 0, 0, 0, 0, 0>>

\* The operations of the writer that need a byte boundary.
NeedBoundary == {"BitOutputStream_getCrc8", "BitOutputStream_getCrc16", "BitOutputStream_close"}

\* C28: getCrc8, getCrc16 and close of a writer whose number of bits
\* written is no multiple of 8 fail with NotAligned and change nothing: no
\* byte reaches the sink, bitBuffer, bitBufferLen, byteCount and the CRCs
\* are as before and the writer is still open; at a byte boundary they flush
\* every byte buffered to the sink.
C28_WriterBoundary ==
    [][(out'.op \in NeedBoundary /\ ghost'.calls = ghost.calls + 1) =>
           IF Len(ghost.bits) % 8 # 0
           THEN out'.err = "NotAligned" /\ wr' = wr /\ wr'.out = "out"
           ELSE /\ out'.err # "NotAligned"
                /\ wr'.bitBufferLen = 0
                /\ wr'.sink = BytesOf(ghost.bits)
                /\ wr'.byteCount = Len(ghost.bits) \div 8]_vars

\* close() refused with a byte and 3 bits in the buffer.
C28_Witness ==
    /\ out.op = "BitOutputStream_close"
    /\ out.err = "NotAligned"
    /\ wr.bitBufferLen = 11
    /\ wr.sink = <<>>
    /\ wr.out = "out"

\* The code a table gives a value, -1 when it has none.
TableCode(table, x) ==
    IF x \in TableValues(table)
    THEN table[CHOOSE i \in DOMAIN table : table[i][1] = x][2]
    ELSE -1

BlockSizeCodeOf(b) ==
    IF TableCode(BLOCK_SIZE_CODES, b) # -1 THEN TableCode(BLOCK_SIZE_CODES, b)
    ELSE IF b <= 256 THEN 6 ELSE 7

SampleRateCodeOf(r) ==
    IF TableCode(SAMPLE_RATE_CODES, r) # -1 THEN TableCode(SAMPLE_RATE_CODES, r)
    ELSE IF r < 256 THEN 12
    ELSE IF r < 65536 THEN 13
    ELSE IF r < 655360 /\ r % 10 = 0 THEN 14
    ELSE 0

\* The block sizes and the sample rates of C29.
BlockSizeAndRateCodes ==
    /\ out.op = "getBlockSizeCode" =>
           IF out.arg \in 1..65536
           THEN /\ out.err = "none"
                /\ out.from = BlockSizeCodeOf(out.arg)
                /\ out.len = (IF out.from = 6 THEN 8 ELSE IF out.from = 7 THEN 16 ELSE 0)
                /\ out.val.blockSize = out.arg
           ELSE out.err = "InvalidArgument"
    /\ (out.op = "getSampleRateCode" /\ out.arg >= 1) =>
           /\ out.err = "none"
           /\ out.from = SampleRateCodeOf(out.arg)
           /\ out.val.sampleRate = (IF out.from = 0 THEN -1 ELSE out.arg)

\* C29 as stated: for every b in 1..65536 getBlockSizeCode(b) is the code
\* of the table, else 6 if b <= 256, else 7, and decoding the code with the
\* tail writeHeader emits gives b; every other b is rejected.  For every r >=
\* 1 getSampleRateCode(r) is the code of the table, else 12 if r < 256, else
\* 13 if r < 65536, else 14 if r < 655360 and r is a multiple of 10, else 0,
\* and decoding the code with its tail gives r, and -1 for code 0.  Sample
\* depth -1 and every depth not in SAMPLE_DEPTH_CODES get code 0.
C29_CodeSelection ==
    /\ BlockSizeAndRateCodes
    /\ (out.op = "getSampleDepthCode" /\ out.arg \notin TableValues(SAMPLE_DEPTH_CODES)) =>
           (out.err = "none" /\ out.from = 0)

\* C29, amended: as stated for the block sizes and the sample rates; sample
\* depth -1 and every depth from 1 to 32 not in SAMPLE_DEPTH_CODES get code
\* 0, and every other depth is rejected with InvalidArgument.
C29_CodeSelectionInRange ==
    /\ BlockSizeAndRateCodes
    /\ (out.op = "getSampleDepthCode" /\ out.arg \notin TableValues(SAMPLE_DEPTH_CODES)) =>
           IF out.arg = -1 \/ out.arg \in 1..32
           THEN out.err = "none" /\ out.from = 0 /\ out.val.sampleDepth = -1
           ELSE out.err = "InvalidArgument"
    /\ (out.op = "getSampleDepthCode" /\ out.arg \in TableValues(SAMPLE_DEPTH_CODES)) =>
           /\ out.err = "none"
           /\ out.from = TableCode(SAMPLE_DEPTH_CODES, out.arg)
           /\ out.val.sampleDepth = out.arg

C29_Witness ==
    /\ out.op = "getSampleRateCode"
    /\ out.arg = 655350
    /\ out.from = 14
    /\ out.len = 16
    /\ out.val.sampleRate = 655350

\* The number of leading 0 bits of idx read as a string of 13 bits.
LeadingZeros13(idx) ==
    CHOOSE q \in 0..13 : idx < Pow2(13 - q) /\ (q < 13 => idx >= Pow2(12 - q))

\* (u >> 1) XOR -(u & 1)
Unfolded(u) == IF u % 2 = 0 THEN u \div 2 ELSE -(u \div 2) - 1

\* The entries of the tables of k at idx, whose symbol has the quotient q.
Entries(k, idx, q) ==
    IF q + 1 + k <= 13
    THEN <<q + 1 + k, Unfolded(q * Pow2(k) + ((idx \div Pow2(13 - (q + 1 + k))) % Pow2(k)))>>
    ELSE <<0>>

\* C30: for every parameter k in 0..30 and every index idx of 13 bits, q
\* being the number of leading 0 bits of idx: if q + 1 + k <= 13 then
\* consumed[k][idx] = q + 1 + k and value[k][idx] = (u >> 1) XOR -(u & 1)
\* with u = (q << k) | r, r the k bits after the first 1 bit; otherwise
\* consumed[k][idx] = 0.
C30_RiceTableContent ==
    out.op = "riceTables" =>
        SubSeq(out.val, 1, Len(Entries(out.arg[1], out.arg[2], LeadingZeros13(out.arg[2]))))
            = Entries(out.arg[1], out.arg[2], LeadingZeros13(out.arg[2]))

\* C31: in every state of an open reader 0 <= bitBufferLen <= 64 and,
\* unless byteBufferLen is -1, 0 <= crcStartIndex <= byteBufferIndex <=
\* byteBufferLen <= BUF_SIZE; resetCrcs never sets crcStartIndex below 0 and
\* every index the CRC update reads lies inside the byte buffer.
C31_ReaderInvariant ==
    rd.data # "nullptr" =>
        /\ 0 <= rd.bitBufferLen /\ rd.bitBufferLen <= 64
        /\ rd.byteBufferLen # -1 =>
               /\ 0 <= rd.crcStartIndex
               /\ rd.crcStartIndex <= rd.byteBufferIndex
               /\ rd.byteBufferIndex <= rd.byteBufferLen
               /\ rd.byteBufferLen <= BUF_SIZE
        /\ out.op = "resetCrcs" => rd.crcStartIndex >= 0
        /\ ~rd.ub

\* C32: in every state of an open reader crc8 is below 2^8 and crc16 below
\* 2^16, getCrc8() returns a value of 8 bits and getCrc16() one of 16, and
\* the assertions getCrc8() and getCrc16() make hold on every call made at a
\* byte boundary.
C32_CrcWidth ==
    /\ rd.data # "nullptr" => (rd.crc8 \in 0..255 /\ rd.crc16 \in 0..65535)
    /\ (out.op = "getCrc8" /\ out.len % 8 = 0) =>
           (out.err = "none" /\ out.val \in 0..255)
    /\ (out.op = "getCrc16" /\ out.len % 8 = 0) =>
           (out.err = "none" /\ out.val \in 0..65535)

\* C33: once a refill of the byte buffer has obtained no bytes, every read
\* made before a seekTo finds the end at once: the source is not asked again
\* (no field a refill writes changes), readByte returns -1 and readUint of
\* more bits than are buffered fails with EndOfStream.
C33_EndSticky ==
    [][(rd.data # "nullptr" /\ rd.byteBufferLen = -1
            /\ out'.op \in {"readByte", "readUint"}) =>
           /\ rd'.byteBufferLen = -1
           /\ rd'.byteBufferStartPos = rd.byteBufferStartPos
           /\ rd'.crcStartIndex = rd.crcStartIndex
           /\ rd'.offset = rd.offset
           /\ (out'.op = "readByte" /\ rd.bitBufferLen = 0) =>
                  (out'.err = "none" /\ out'.val = -1)
           /\ (out'.op = "readUint" /\ out'.arg > rd.bitBufferLen) =>
                  (out'.err = "EndOfStream" /\ rd'.bitBufferLen = rd.bitBufferLen)]_vars

\* readByte() returning -1 after the end was found and resetCrcs() called.
C33_Witness ==
    /\ out.op = "readByte"
    /\ out.err = "none"
    /\ out.val = -1
    /\ rd.byteBufferLen = -1
    /\ rd.crcStartIndex = Len(data)

\* The step is a probe that found the end: readByte() returned -1 or
\* readUint failed with EndOfStream.
EndProbe ==
    \/ out'.op = "readByte" /\ out'.err = "none" /\ out'.val = -1
    \/ out'.op = "readUint" /\ out'.err = "EndOfStream"

\* C34: when readByte() returns -1 or readUint fails with EndOfStream,
\* getPosition() and getBitPosition() are after the call what they were
\* before it, and getCrc8() and getCrc16() at a byte boundary return what
\* they would have returned before it.
C34_EndProbe ==
    [][(rd.data # "nullptr" /\ EndProbe) =>
           /\ getPosition(rd') = getPosition(rd)
           /\ getBitPosition(rd') = getBitPosition(rd)
           /\ checkByteAligned(rd) =>
                  /\ getCrc8(rd', TRUE).val = getCrc8(rd, TRUE).val
                  /\ getCrc16(rd', TRUE).val = getCrc16(rd, TRUE).val]_vars

\* C35: no refill of a ByteArrayFlacInput copies bytes from outside its
\* array, whatever positions were passed to seekTo, and a read after a seek
\* to a position at or beyond the length reports the end of the stream.
C35_InsideArray ==
    [][(rd.data # "nullptr" /\ out'.op \in {"readByte", "readUint"}) =>
           /\ ~rd'.ub
           /\ (out.op = "seekTo" /\ out.arg >= Len(data)) => EndProbe]_vars

\* C36: a writeHeader that ends with an exception leaves the writer as it
\* was before the call: emitted bytes, buffered bits, byteCount and CRCs.
C36_FailsClean ==
    (out.op = "writeHeader" /\ out.err # "none" /\ ~Halts(out.err)) => wr = NewWriter

\* C37: a StreamInfo that the parsing constructor made of a payload of 34
\* bytes passes checkValues, and write() on it gives the payload back byte
\* for byte after the four bytes of the block header.
C37_ParseValid ==
    (out.op = "StreamInfo_parse" /\ out.err = "none") =>
        /\ StreamInfo_checkValues(out.val) = "none"
        /\ Bind(StreamInfo_write(out.val, FALSE, NewWriter, build.abi),
                LAMBDA u : /\ u.err = "none"
                           /\ SubSeq(BitOutputStream_flush(u.r, build.abi).sink, 5, 38) = data)

\* The zero bits above the highest set bit of a word, all its bits when it
\* is zero.
RECURSIVE LeadingZeroBits(_)
LeadingZeroBits(b) ==
    IF Len(b) = 0 THEN 0
    ELSE IF b[1] = 0 THEN 8 + LeadingZeroBits(Tail(b))
    ELSE 8 - (CHOOSE k \in 1..8 : Pow2(k - 1) <= b[1] /\ b[1] < Pow2(k))

\* C39: numberOfLeadingZeros of a 64-bit word and of a 32-bit word is the
\* number of zero bits above its highest set bit, 64 and 32 for zero.
C39_LeadingZeros ==
    out.op \in {"numberOfLeadingZeros64", "numberOfLeadingZeros32"} =>
        out.val = LeadingZeroBits(out.arg)

\* The bytes of the samples in the order of the format: sample by sample,
\* channel by channel, the low numBytes bytes of each, least significant
\* first.
Md5Stream(samples, chans, numSamples, numBytes) ==
    [p \in 1..(numSamples * chans * numBytes) |->
        IntW(samples[((p - 1) \div numBytes) % chans][(p - 1) \div (chans * numBytes)])
            [4 - ((p - 1) % numBytes)]]

\* C38: getMd5Hash hands the digest the bytes of Md5Stream, none dropped,
\* repeated or out of place, in chunks of at most Md5ChunkSamples samples,
\* the last partial chunk included, without a store outside the chunk
\* buffer; a depth above 32 or no multiple of 8 is rejected with
\* InvalidArgument before anything is hashed.
C38_Md5Input ==
    out.op = "getMd5Hash" =>
        IF out.arg.depth > 32 \/ out.arg.depth % 8 # 0
        THEN out.err = "InvalidArgument" /\ out.val.ctx = <<>> /\ out.val.chunks = <<>>
        ELSE /\ out.err = "none"
             /\ ~out.val.ub
             /\ out.val.l = 0
             /\ out.val.ctx = Md5Stream(out.arg.samples, out.arg.chans,
                                        out.arg.numSamples, out.arg.depth \div 8)
             /\ \A c \in 1..Len(out.val.chunks) :
                    out.val.chunks[c] <= Md5ChunkSamples * out.arg.chans * (out.arg.depth \div 8)

\* Two channels of 24 bits in two full chunks and a partial one.
C38_Witness ==
    /\ out.op = "getMd5Hash"
    /\ out.err = "none"
    /\ out.arg.chans = 2
    /\ out.arg.depth = 24
    /\ Len(out.val.chunks) = 3
    /\ out.val.chunks[3] < out.val.chunks[1]
    /\ out.val.ctx[1] # out.val.ctx[3]

=============================================================================
